---- MODULE Spec2Model ----
(***************************************************************************)
(* Caption timing, rewrap and serialization engine of the subtitle editor. *)
(*                                                                         *)
(* Strings are sequences of one-character strings, so that lengths,        *)
(* splitting, padding and joining are computed character by character.     *)
(* JavaScript numbers holding seconds are exact rationals <<n, d>> in      *)
(* lowest terms with d > 0 (floating-point rounding is not modelled).      *)
(* The host time zone is taken to have a whole-minute offset from UTC, so  *)
(* Date.prototype.setSeconds acts on the UTC seconds field.                *)
(***************************************************************************)
EXTENDS Integers, Sequences, FiniteSets, TLC

VARIABLES
    appState,           \* App.appState
    mediaFile,          \* App.mediaFile
    highlightClips,     \* App.highlightClips
    error,              \* App.error
    progress,           \* App.progress
    styleOptions,       \* App.styleOptions (the fields that steer rendering)
    pending,            \* the handleFileUpload call suspended at its await
    generation,         \* how ai.models.generateContent settled for that call
    subtitles,          \* App.subtitles: the caption collection
    nextId,             \* next fresh object identity for a caption object
    currentTime,        \* VideoPlayer.currentTime
    activeSubtitle,     \* VideoPlayer.activeSubtitle
    setActiveSubtitleCalled, \* whether the last timeupdate called the setter
    srtExportOptions,   \* SubtitleEditor.srtExportOptions
    isSrtModalOpen,     \* SubtitleEditor.isSrtModalOpen
    editingIndex,       \* SubtitleTimeline.editingIndex (1-based)
    editText,           \* SubtitleTimeline.editText
    download,           \* content and file extension of the last downloadFile
    tsSeconds,          \* argument of formatTimestamp
    tsFormat,           \* argument of formatTimestamp
    tsResult,           \* value returned by formatTimestamp
    rewrapped           \* value returned by rewrapSubtitles

vars == <<appState, mediaFile, highlightClips, error, progress, styleOptions,
          pending, generation, subtitles, nextId, currentTime, activeSubtitle,
          srtExportOptions, isSrtModalOpen, editingIndex, editText, download,
          tsSeconds, tsFormat, tsResult, rewrapped,
          setActiveSubtitleCalled>>

sessionVars == <<subtitles, nextId, currentTime, activeSubtitle,
                 srtExportOptions, isSrtModalOpen, editingIndex, editText,
                 download>>
playerTrace == <<setActiveSubtitleCalled>>
tsVars == <<tsSeconds, tsFormat, tsResult>>
appVars ==
    <<appState, mediaFile, highlightClips, error, progress, pending, generation>>

\* null or not yet returned; a value v that is present is held as <<v>>
None == <<>>
Some(v) == <<v>>
Value(opt) == opt[1]

----------------------------------------------------------------------------
(* Numbers *)

RECURSIVE GCD(_, _)
GCD(a, b) == IF b = 0 THEN a ELSE GCD(b, a % b)

Abs(n) == IF n < 0 THEN -n ELSE n

\* n/d in lowest terms, d > 0
Rat(n, d) ==
    LET g == GCD(Abs(n), Abs(d))
        s == IF d < 0 THEN -1 ELSE 1
    IN  <<(s * n) \div g, (s * d) \div g>>

Sec(n) == <<n, 1>>
Ms(n) == Rat(n, 1000)

RAdd(a, b) == Rat(a[1] * b[2] + b[1] * a[2], a[2] * b[2])
RSub(a, b) == Rat(a[1] * b[2] - b[1] * a[2], a[2] * b[2])
RMulInt(k, a) == Rat(k * a[1], a[2])
RDivInt(a, k) == Rat(a[1], a[2] * k)
RLeq(a, b) == a[1] * b[2] <= b[1] * a[2]
RGeq(a, b) == RLeq(b, a)

\* ToIntegerOrInfinity: truncation toward zero
ToInteger(a) ==
    IF a[1] >= 0 THEN a[1] \div a[2] ELSE -((-a[1]) \div a[2])

----------------------------------------------------------------------------
(* Strings *)

Digits == <<"0", "1", "2", "3", "4", "5", "6", "7", "8", "9">>

\* Number.prototype.toString for a non-negative integer
RECURSIVE NatToString(_)
NatToString(n) ==
    IF n < 10 THEN <<Digits[n + 1]>>
    ELSE Append(NatToString(n \div 10), Digits[(n % 10) + 1])

\* String.prototype.padStart with a one-character fill
RECURSIVE padStart(_, _, _)
padStart(s, targetLength, fill) ==
    IF Len(s) >= targetLength THEN s
    ELSE padStart(<<fill>> \o s, targetLength, fill)

\* Array.prototype.join
RECURSIVE join(_, _)
join(parts, sep) ==
    IF Len(parts) = 0 THEN <<>>
    ELSE IF Len(parts) = 1 THEN parts[1]
    ELSE parts[1] \o sep \o join(Tail(parts), sep)

Whitespace == {" ", "\n", "\t"}

\* String.prototype.split(/\s+/): the pieces between maximal whitespace runs,
\* with an empty piece before a leading run and after a trailing run
RECURSIVE SplitFrom(_, _, _)
SplitFrom(text, i, piece) ==
    IF i > Len(text) THEN <<piece>>
    ELSE IF text[i] \in Whitespace
         THEN IF i > 1 /\ text[i - 1] \in Whitespace
              THEN SplitFrom(text, i + 1, piece)
              ELSE <<piece>> \o SplitFrom(text, i + 1, <<>>)
         ELSE SplitFrom(text, i + 1, Append(piece, text[i]))

splitWhitespace(text) == SplitFrom(text, 1, <<>>)

\* sub.text.split(/\s+/).filter(w => w.length > 0)
tokenize(text) == SelectSeq(splitWhitespace(text), LAMBDA w : Len(w) > 0)

----------------------------------------------------------------------------
(* formatTimestamp *)

\* new Date(0); date.setSeconds(seconds): the time value in milliseconds.
\* setSeconds converts its argument with ToIntegerOrInfinity and keeps the
\* date's milliseconds field, which is 0.
setSeconds(seconds) == ToInteger(seconds) * 1000

getUTCHours(tv) == (tv \div 3600000) % 24
getUTCMinutes(tv) == (tv \div 60000) % 60
getUTCSeconds(tv) == (tv \div 1000) % 60
getUTCMilliseconds(tv) == tv % 1000

\* formatTimestamp without the padding of the milliseconds field
formatTimestampUnpaddedMs(seconds, format) ==
    LET date == setSeconds(seconds)
        hours == padStart(NatToString(getUTCHours(date)), 2, "0")
        minutes == padStart(NatToString(getUTCMinutes(date)), 2, "0")
        secs == padStart(NatToString(getUTCSeconds(date)), 2, "0")
        ms == NatToString(getUTCMilliseconds(date))
        separator == IF format = "srt" THEN "," ELSE "."
    IN  hours \o <<":">> \o minutes \o <<":">> \o secs \o <<separator>> \o ms

formatTimestamp(seconds, format) ==
    LET date == setSeconds(seconds)
        hours == padStart(NatToString(getUTCHours(date)), 2, "0")
        minutes == padStart(NatToString(getUTCMinutes(date)), 2, "0")
        secs == padStart(NatToString(getUTCSeconds(date)), 2, "0")
        ms == padStart(NatToString(getUTCMilliseconds(date)), 3, "0")
        separator == IF format = "srt" THEN "," ELSE "."
    IN  hours \o <<":">> \o minutes \o <<":">> \o secs \o <<separator>> \o ms

----------------------------------------------------------------------------
(* rewrapSubtitles *)

Min(a, b) == IF a < b THEN a ELSE b

\* 1. Create lines based on maxCharsPerLine: the loop over words from the
\*    k-th on, with the current value of currentLine, then the final push
\* rewrapLinesFrom without the separating space in the length test
RECURSIVE rewrapLinesFromNoSpace(_, _, _, _)
rewrapLinesFromNoSpace(words, k, currentLine, maxCharsPerLine) ==
    IF k > Len(words) THEN <<currentLine>>
    ELSE LET word == words[k]
         IN  IF Len(currentLine) = 0
             THEN rewrapLinesFromNoSpace(words, k + 1, word, maxCharsPerLine)
             ELSE IF Len(currentLine) + Len(word) <= maxCharsPerLine
             THEN rewrapLinesFromNoSpace(words, k + 1,
                                         currentLine \o <<" ">> \o word,
                                         maxCharsPerLine)
             ELSE <<currentLine>>
                  \o rewrapLinesFromNoSpace(words, k + 1, word, maxCharsPerLine)

RECURSIVE rewrapLinesFrom(_, _, _, _)
rewrapLinesFrom(words, k, currentLine, maxCharsPerLine) ==
    IF k > Len(words) THEN <<currentLine>>
    ELSE LET word == words[k]
         IN  IF Len(currentLine) = 0
             THEN rewrapLinesFrom(words, k + 1, word, maxCharsPerLine)
             ELSE IF Len(currentLine) + 1 + Len(word) <= maxCharsPerLine
             THEN rewrapLinesFrom(words, k + 1, currentLine \o <<" ">> \o word,
                                  maxCharsPerLine)
             ELSE <<currentLine>>
                  \o rewrapLinesFrom(words, k + 1, word, maxCharsPerLine)

rewrapLines(words, maxCharsPerLine) ==
    rewrapLinesFrom(words, 1, <<>>, maxCharsPerLine)

\* 2. Create cards based on maxLinesPerCard: the loop from index i (0-based)
\* rewrapCardsFrom with a slice one line too long
RECURSIVE rewrapCardsFromLongSlice(_, _, _)
rewrapCardsFromLongSlice(lines, i, maxLinesPerCard) ==
    IF i >= Len(lines) THEN <<>>
    ELSE LET chunk == SubSeq(lines, i + 1,
                             Min(i + maxLinesPerCard + 1, Len(lines)))
         IN  <<join(chunk, <<"\n">>)>>
             \o rewrapCardsFromLongSlice(lines, i + maxLinesPerCard,
                                         maxLinesPerCard)

RECURSIVE rewrapCardsFrom(_, _, _)
rewrapCardsFrom(lines, i, maxLinesPerCard) ==
    IF i >= Len(lines) THEN <<>>
    ELSE LET chunk == SubSeq(lines, i + 1, Min(i + maxLinesPerCard, Len(lines)))
         IN  <<join(chunk, <<"\n">>)>>
             \o rewrapCardsFrom(lines, i + maxLinesPerCard, maxLinesPerCard)

rewrapCards(lines, maxLinesPerCard) == rewrapCardsFrom(lines, 0, maxLinesPerCard)

\* 3. Distribute duration and create new Subtitle objects (no words; the
\*    objects are new, identity 0 stands for "not an object of the collection")
\* rewrapTimes without the division of the duration by the number of cards
rewrapTimesUndivided(sub, cards) ==
    LET originalDuration == RSub(sub.end, sub.start)
        durationPerCard == originalDuration
    IN  [i \in 1..Len(cards) |->
            [id |-> 0,
             text |-> cards[i],
             start |-> RAdd(sub.start, RMulInt(i - 1, durationPerCard)),
             end |-> RAdd(sub.start, RMulInt(i, durationPerCard)),
             words |-> <<>>]]

rewrapTimes(sub, cards) ==
    LET originalDuration == RSub(sub.end, sub.start)
        durationPerCard == IF Len(cards) > 0
                           THEN RDivInt(originalDuration, Len(cards))
                           ELSE Sec(0)
    IN  [i \in 1..Len(cards) |->
            [id |-> 0,
             text |-> cards[i],
             start |-> RAdd(sub.start, RMulInt(i - 1, durationPerCard)),
             end |-> RAdd(sub.start, RMulInt(i, durationPerCard)),
             words |-> <<>>]]

\* rewrapOne leaving out the last word of a sub of several words
rewrapOneLosingLastWord(sub, maxCharsPerLine, maxLinesPerCard) ==
    LET all == tokenize(sub.text)
        words == IF Len(all) > 1 THEN SubSeq(all, 1, Len(all) - 1) ELSE all
    IN  IF Len(words) = 0 THEN <<>>
        ELSE rewrapTimes(sub, rewrapCards(rewrapLines(words, maxCharsPerLine),
                                          maxLinesPerCard))

\* the body of the loop over subtitles, for one sub
rewrapOne(sub, maxCharsPerLine, maxLinesPerCard) ==
    LET words == tokenize(sub.text)
    IN  IF Len(words) = 0 THEN <<>>
        ELSE rewrapTimes(sub, rewrapCards(rewrapLines(words, maxCharsPerLine),
                                          maxLinesPerCard))

\* rewrapSubtitles putting the cards of a caption in front of the output
RECURSIVE rewrapSubtitlesPrepending(_, _, _)
rewrapSubtitlesPrepending(subs, maxCharsPerLine, maxLinesPerCard) ==
    IF Len(subs) = 0 THEN <<>>
    ELSE rewrapSubtitlesPrepending(Tail(subs), maxCharsPerLine, maxLinesPerCard)
         \o rewrapOne(Head(subs), maxCharsPerLine, maxLinesPerCard)

RECURSIVE rewrapSubtitles(_, _, _)
rewrapSubtitles(subs, maxCharsPerLine, maxLinesPerCard) ==
    IF Len(subs) = 0 THEN <<>>
    ELSE rewrapOne(Head(subs), maxCharsPerLine, maxLinesPerCard)
         \o rewrapSubtitles(Tail(subs), maxCharsPerLine, maxLinesPerCard)

----------------------------------------------------------------------------
(* exportToSRT, exportToVTT *)

\* subtitles.flatMap(sub => sub.words || []); an absent words field and an
\* empty one are both <<>>
\* flatWords taking the captions from the last to the first
RECURSIVE flatWordsReversed(_)
flatWordsReversed(subs) ==
    IF Len(subs) = 0 THEN <<>>
    ELSE flatWordsReversed(Tail(subs)) \o Head(subs).words

RECURSIVE flatWords(_)
flatWords(subs) ==
    IF Len(subs) = 0 THEN <<>> ELSE Head(subs).words \o flatWords(Tail(subs))

srtEntry(index, start, end, text) ==
    NatToString(index) \o <<"\n">>
    \o formatTimestamp(start, "srt") \o <<" ", "-", "-", ">", " ">>
    \o formatTimestamp(end, "srt") \o <<"\n">> \o text \o <<"\n">>

\* exportLines numbering the entries from 0
exportLinesZeroBased(subs, options) ==
    LET subtitlesToExport ==
            IF options.type = "lines" /\ options.maxCharsPerLine > 0
               /\ options.maxLinesPerCard > 0
            THEN rewrapSubtitles(subs, options.maxCharsPerLine,
                                 options.maxLinesPerCard)
            ELSE subs
    IN  join([i \in 1..Len(subtitlesToExport) |->
                srtEntry(i - 1, subtitlesToExport[i].start,
                         subtitlesToExport[i].end, subtitlesToExport[i].text)],
             <<"\n">>)

\* exportLines joining the entries without the separating newline
exportLinesNoBlankLine(subs, options) ==
    LET subtitlesToExport ==
            IF options.type = "lines" /\ options.maxCharsPerLine > 0
               /\ options.maxLinesPerCard > 0
            THEN rewrapSubtitles(subs, options.maxCharsPerLine,
                                 options.maxLinesPerCard)
            ELSE subs
    IN  join([i \in 1..Len(subtitlesToExport) |->
                srtEntry(i, subtitlesToExport[i].start,
                         subtitlesToExport[i].end, subtitlesToExport[i].text)],
             <<>>)

\* exportLines rewrapping also when maxCharsPerLine is 0
exportLinesNonNegativeChars(subs, options) ==
    LET subtitlesToExport ==
            IF options.type = "lines" /\ options.maxCharsPerLine >= 0
               /\ options.maxLinesPerCard > 0
            THEN rewrapSubtitles(subs, options.maxCharsPerLine,
                                 options.maxLinesPerCard)
            ELSE subs
    IN  join([i \in 1..Len(subtitlesToExport) |->
                srtEntry(i, subtitlesToExport[i].start,
                         subtitlesToExport[i].end, subtitlesToExport[i].text)],
             <<"\n">>)

\* Default 'lines' logic
exportLines(subs, options) ==
    LET subtitlesToExport ==
            IF options.type = "lines" /\ options.maxCharsPerLine > 0
               /\ options.maxLinesPerCard > 0
            THEN rewrapSubtitles(subs, options.maxCharsPerLine,
                                 options.maxLinesPerCard)
            ELSE subs
    IN  join([i \in 1..Len(subtitlesToExport) |->
                srtEntry(i, subtitlesToExport[i].start,
                         subtitlesToExport[i].end, subtitlesToExport[i].text)],
             <<"\n">>)

exportToSRT(subs, options) ==
    IF options.type = "words"
    THEN LET words == flatWords(subs)
         IN  IF Len(words) = 0
             THEN exportLines(subs, [options EXCEPT !.type = "lines"])
             ELSE join([i \in 1..Len(words) |->
                          srtEntry(i, words[i].start, words[i].end,
                                   words[i].word)],
                       <<"\n">>)
    ELSE exportLines(subs, options)

\* exportToVTT with a sequence number in front of every entry
exportToVTTNumbered(subs) ==
    LET header == <<"W", "E", "B", "V", "T", "T", "\n", "\n">>
        body == join([i \in 1..Len(subs) |->
                        NatToString(i) \o <<"\n">>
                        \o formatTimestamp(subs[i].start, "vtt")
                        \o <<" ", "-", "-", ">", " ">>
                        \o formatTimestamp(subs[i].end, "vtt")
                        \o <<"\n">> \o subs[i].text \o <<"\n">>],
                     <<"\n">>)
    IN  header \o body

exportToVTT(subs) ==
    LET header == <<"W", "E", "B", "V", "T", "T", "\n", "\n">>
        body == join([i \in 1..Len(subs) |->
                        formatTimestamp(subs[i].start, "vtt")
                        \o <<" ", "-", "-", ">", " ">>
                        \o formatTimestamp(subs[i].end, "vtt")
                        \o <<"\n">> \o subs[i].text \o <<"\n">>],
                     <<"\n">>)
    IN  header \o body

----------------------------------------------------------------------------
(* State of a freshly mounted editor, and of the pure-function harnesses *)

caption(id, text, span, words) ==
    [id |-> id, text |-> text, start |-> span[1], end |-> span[2],
     words |-> words]

\* useState initial value of srtExportOptions
DefaultSrtExportOptions ==
    [type |-> "lines", maxCharsPerLine |-> 42, maxLinesPerCard |-> 2]

\* null held by a state variable of array type, distinct from every array
Null == [n \in {0} |-> 0]

StylePreset ==
    {"STANDARD", "TIKTOK", "KEYWORDS", "EMOJIS", "MINIMALIST", "BOLD_OUTLINE",
     "POP_3D"}

\* useState initial value of styleOptions
DefaultStyleOptions == [animation |-> "WORD"]

\* the switch on stylePreset in handleFileUpload
applyStylePreset(prev, stylePreset) ==
    CASE stylePreset = "TIKTOK" -> [prev EXCEPT !.animation = "WORD"]
      [] stylePreset = "MINIMALIST" -> [prev EXCEPT !.animation = "NONE"]
      [] stylePreset = "BOLD_OUTLINE" -> [prev EXCEPT !.animation = "KARAOKE"]
      [] stylePreset = "POP_3D" -> [prev EXCEPT !.animation = "WORD"]
      [] OTHER -> prev

file(size) == [size |-> size]

\* the App once an upload of a small file has succeeded with the preset
EditorMounted(stylePreset) ==
    /\ appState = "EDITING"
    /\ mediaFile = Some(file(1))
    /\ highlightClips = Null
    /\ error = None
    /\ progress = 100
    /\ styleOptions = applyStylePreset(DefaultStyleOptions, stylePreset)
    /\ pending = None
    /\ generation = None

SessionInit(subs) ==
    /\ subtitles = subs
    /\ nextId = Len(subs) + 1
    /\ currentTime = Sec(0)
    /\ activeSubtitle = None
    /\ srtExportOptions = DefaultSrtExportOptions
    /\ isSrtModalOpen = FALSE
    /\ editingIndex = None
    /\ editText = <<>>
    /\ download = None

TimestampIdle == tsSeconds = Sec(0) /\ tsFormat = "srt" /\ tsResult = None

----------------------------------------------------------------------------
(* The editing session: VideoPlayer, SubtitleTimeline, ExportModal and      *)
(* SubtitleEditor handlers over one caption collection                      *)

MaxEdits == 1

word(w, start, end) == [word |-> w, start |-> start, end |-> end]

\* caption collections as the generation service may return them
GeneratedCollections ==
    {<<caption(1, <<"h", "i">>, <<Sec(2), Sec(4)>>, <<>>)>>,
     <<caption(1, <<"a", "a", " ", "b", "b">>, <<Sec(0), Sec(3)>>,
               <<word(<<"a", "a">>, Sec(0), Sec(1)),
                 word(<<"b", "b">>, Sec(1), Sec(3))>>),
       caption(2, <<"c", "c">>, <<Sec(2), Sec(5)>>,
               <<word(<<"c", "c">>, Sec(2), Sec(5))>>)>>,
     <<caption(1, <<"z">>, <<Sec(5), Sec(5)>>, <<>>)>>,
     <<caption(1, <<"*", "*", "b", "*", "*", " ", "a">>, <<Sec(3), Sec(4)>>,
               <<>>)>>,
     <<caption(1, <<"a", " ", "*", "*", "b", "*", "*">>, <<Sec(2), Sec(3)>>,
               <<word(<<"a">>, Sec(2), Sec(2)), word(<<"b">>, Sec(2), Sec(3))>>)>>,
     <<>>}

\* values of video.currentTime reported by timeupdate events
PlaybackTimes == {Sec(0), Ms(1999), Sec(2), Sec(3), Sec(4), Ms(4001), Sec(5)}

\* contents typed into the timeline textarea
EditTexts == {<<" ">>, <<"x", " ">>}

\* parseInt(value, 10) of what is typed into a numeric field; -1 stands for
\* every input that is NaN or negative
NumericInputs == {-1, 0, 3}

\* subtitles.find(sub => now >= sub.start && now <= sub.end) || null,
\* searching from index k
\* findFrom with the end of the interval excluded
RECURSIVE findFromExclusiveEnd(_, _, _)
findFromExclusiveEnd(subs, now, k) ==
    IF k > Len(subs) THEN None
    ELSE IF RGeq(now, subs[k].start) /\ RLeq(now, subs[k].end)
            /\ now # subs[k].end
         THEN Some(subs[k])
         ELSE findFromExclusiveEnd(subs, now, k + 1)

RECURSIVE findFrom(_, _, _)
findFrom(subs, now, k) ==
    IF k > Len(subs) THEN None
    ELSE IF RGeq(now, subs[k].start) /\ RLeq(now, subs[k].end)
         THEN Some(subs[k])
         ELSE findFrom(subs, now, k + 1)

find(subs, now) == findFrom(subs, now, 1)

\* handleTimeUpdate calling setActiveSubtitle on every event
handleTimeUpdateAlwaysSetting(now) ==
    /\ currentTime' = now
    /\ activeSubtitle' = find(subtitles, now)
    /\ setActiveSubtitleCalled' = TRUE
    /\ UNCHANGED <<subtitles, nextId, srtExportOptions, isSrtModalOpen,
                   editingIndex, editText, download, tsVars, rewrapped,
                   styleOptions, appVars>>

\* the timeupdate listener of VideoPlayer; in the editor subtitles and
\* styleOptions are always supplied and playbackRange never is
handleTimeUpdate(now) ==
    /\ currentTime' = now
    /\ LET currentSubtitle == find(subtitles, now)
       IN  /\ activeSubtitle' = IF currentSubtitle # activeSubtitle
                                THEN currentSubtitle
                                ELSE activeSubtitle
           /\ setActiveSubtitleCalled' = (currentSubtitle # activeSubtitle)
    /\ UNCHANGED <<subtitles, nextId, srtExportOptions, isSrtModalOpen,
                   editingIndex, editText, download, tsVars, rewrapped,
                   styleOptions, appVars>>

isWordAnimationAvailable ==
    Len(subtitles) > 0 /\ Len(subtitles[1].words) > 0

\* String.prototype.trim
RECURSIVE trimStart(_)
trimStart(s) ==
    IF Len(s) > 0 /\ Head(s) \in Whitespace THEN trimStart(Tail(s)) ELSE s

RECURSIVE trimEnd(_)
trimEnd(s) ==
    IF Len(s) > 0 /\ s[Len(s)] \in Whitespace
    THEN trimEnd(SubSeq(s, 1, Len(s) - 1)) ELSE s

trim(s) == trimEnd(trimStart(s))

\* handleUpdateSubtitle keeping the words of the caption it updates
handleUpdateSubtitleKeepingWords(index, newText) ==
    [subtitles EXCEPT ![index] = [@ EXCEPT !.id = nextId, !.text = newText]]

\* SubtitleEditor.handleUpdateSubtitle: the collection after the update; the
\* updated caption is a new object
handleUpdateSubtitle(index, newText) ==
    [subtitles EXCEPT ![index] =
        [@ EXCEPT !.id = nextId, !.text = newText, !.words = <<>>]]

\* click on the text of a row of the timeline; the overlay of the export
\* dialog covers the timeline, and a textarea that is open is blurred (and
\* saved) before another row receives the click
handleEditStart(index) ==
    /\ ~isSrtModalOpen
    /\ editingIndex = None
    /\ editingIndex' = Some(index)
    /\ editText' = subtitles[index].text
    /\ UNCHANGED <<subtitles, nextId, currentTime, activeSubtitle,
                   srtExportOptions, isSrtModalOpen, download, tsVars,
                   rewrapped, styleOptions, appVars,
                   playerTrace>>

\* onChange of the textarea
setEditText(text) ==
    /\ editingIndex # None
    /\ editText' = text
    /\ UNCHANGED <<subtitles, nextId, currentTime, activeSubtitle,
                   srtExportOptions, isSrtModalOpen, editingIndex, download,
                   tsVars, rewrapped,
                   styleOptions, appVars, playerTrace>>

EditsDone == nextId - 1 - Len(subtitles)

\* handleSave without the test that the trimmed text is not empty
handleSaveAcceptingEmpty(index) ==
    /\ editingIndex = Some(index)
    /\ IF trim(editText) # subtitles[index].text
       THEN /\ EditsDone < MaxEdits
            /\ subtitles' = handleUpdateSubtitle(index, trim(editText))
            /\ nextId' = nextId + 1
       ELSE UNCHANGED <<subtitles, nextId>>
    /\ editingIndex' = None
    /\ UNCHANGED <<currentTime, activeSubtitle, srtExportOptions,
                   isSrtModalOpen, editText, download, tsVars, rewrapped,
                   styleOptions, appVars, playerTrace>>

\* blur of the textarea, or Enter
handleSave(index) ==
    /\ editingIndex = Some(index)
    /\ IF Len(trim(editText)) > 0 /\ trim(editText) # subtitles[index].text
       THEN /\ EditsDone < MaxEdits
            /\ subtitles' = handleUpdateSubtitle(index, trim(editText))
            /\ nextId' = nextId + 1
       ELSE UNCHANGED <<subtitles, nextId>>
    /\ editingIndex' = None
    /\ UNCHANGED <<currentTime, activeSubtitle, srtExportOptions,
                   isSrtModalOpen, editText, download, tsVars, rewrapped,
                   styleOptions, appVars, playerTrace>>

\* Escape in the textarea
handleKeyDownEscape ==
    /\ editingIndex # None
    /\ editingIndex' = None
    /\ UNCHANGED <<subtitles, nextId, currentTime, activeSubtitle,
                   srtExportOptions, isSrtModalOpen, editText, download,
                   tsVars, rewrapped,
                   styleOptions, appVars, playerTrace>>

\* the Export SRT button
openSrtModal ==
    /\ ~isSrtModalOpen
    /\ editingIndex = None
    /\ isSrtModalOpen' = TRUE
    /\ UNCHANGED <<subtitles, nextId, currentTime, activeSubtitle,
                   srtExportOptions, editingIndex, editText, download, tsVars,
                   rewrapped, styleOptions, appVars,
                   playerTrace>>

\* onClose of ExportModal
closeSrtModal ==
    /\ isSrtModalOpen
    /\ isSrtModalOpen' = FALSE
    /\ UNCHANGED <<subtitles, nextId, currentTime, activeSubtitle,
                   srtExportOptions, editingIndex, editText, download, tsVars,
                   rewrapped, styleOptions, appVars,
                   playerTrace>>

\* click on the Standard Lines card
selectLines ==
    /\ isSrtModalOpen
    /\ srtExportOptions' = [srtExportOptions EXCEPT !.type = "lines"]
    /\ UNCHANGED <<subtitles, nextId, currentTime, activeSubtitle,
                   isSrtModalOpen, editingIndex, editText, download, tsVars,
                   rewrapped, styleOptions, appVars,
                   playerTrace>>

\* click on the Word-by-Word button, disabled unless word data is available
selectWords ==
    /\ isSrtModalOpen
    /\ isWordAnimationAvailable
    /\ srtExportOptions' = [srtExportOptions EXCEPT !.type = "words"]
    /\ UNCHANGED <<subtitles, nextId, currentTime, activeSubtitle,
                   isSrtModalOpen, editingIndex, editText, download, tsVars,
                   rewrapped, styleOptions, appVars,
                   playerTrace>>

\* ExportModal.handleNumericChange
handleNumericChange(key, numValue) ==
    /\ isSrtModalOpen
    /\ srtExportOptions' = IF numValue >= 0
                           THEN [srtExportOptions EXCEPT ![key] = numValue]
                           ELSE srtExportOptions
    /\ UNCHANGED <<subtitles, nextId, currentTime, activeSubtitle,
                   isSrtModalOpen, editingIndex, editText, download, tsVars,
                   rewrapped, styleOptions, appVars,
                   playerTrace>>

\* SubtitleEditor.handleSrtExport (Confirm & Download)
handleSrtExport ==
    /\ isSrtModalOpen
    /\ download' = Some([content |-> exportToSRT(subtitles, srtExportOptions),
                         extension |-> "srt"])
    /\ isSrtModalOpen' = FALSE
    /\ UNCHANGED <<subtitles, nextId, currentTime, activeSubtitle,
                   srtExportOptions, editingIndex, editText, tsVars, rewrapped,
                   styleOptions, appVars, playerTrace>>

\* SubtitleEditor.handleVttExport
handleVttExport ==
    /\ ~isSrtModalOpen
    /\ editingIndex = None
    /\ download' = Some([content |-> exportToVTT(subtitles),
                         extension |-> "vtt"])
    /\ UNCHANGED <<subtitles, nextId, currentTime, activeSubtitle,
                   srtExportOptions, isSrtModalOpen, editingIndex, editText,
                   tsVars, rewrapped,
                   styleOptions, appVars, playerTrace>>

\* StyleControls.handleStyleChange for the three Animation buttons; the Word
\* button is disabled unless word data is available
handleStyleChange(key, value) ==
    /\ ~isSrtModalOpen
    /\ value = "WORD" => isWordAnimationAvailable
    /\ styleOptions' = [styleOptions EXCEPT ![key] = value]
    /\ UNCHANGED <<sessionVars, tsVars, rewrapped, appVars,
                   playerTrace>>

----------------------------------------------------------------------------
(* What SubtitleDisplay renders. A JavaScript number is a rational, or one  *)
(* of NaN = <<0, 0>>, Infinity = <<1, 0>> and -Infinity = <<-1, 0>>.        *)

NaN == <<0, 0>>
isNaN(x) == x = NaN

\* a / b for finite a and b; b is never -0 here
divide(a, b) ==
    IF b[1] # 0 THEN Rat(a[1] * b[2], a[2] * b[1])
    ELSE IF a[1] = 0 THEN NaN
    ELSE IF a[1] > 0 THEN <<1, 0>> ELSE <<-1, 0>>

\* x * k for a positive integer k
multiply(x, k) == IF x[2] = 0 THEN x ELSE RMulInt(k, x)

MathMin(a, b) ==
    IF isNaN(a) \/ isNaN(b) THEN NaN ELSE IF RLeq(a, b) THEN a ELSE b

MathMax(a, b) ==
    IF isNaN(a) \/ isNaN(b) THEN NaN ELSE IF RLeq(a, b) THEN b ELSE a

\* gradientPercentage without the factor 100
gradientPercentageAsFraction(sub, now) ==
    LET duration == RSub(sub.end, sub.start)
        progressValue == divide(RSub(now, sub.start), duration)
    IN  MathMax(Sec(0), MathMin(Sec(100), progressValue))

gradientPercentage(sub, now) ==
    LET duration == RSub(sub.end, sub.start)
        progressValue == divide(RSub(now, sub.start), duration)
    IN  MathMax(Sec(0), MathMin(Sec(100), multiply(progressValue, 100)))

includes(s, sub) ==
    \E i \in 1..(Len(s) - Len(sub) + 1) : SubSeq(s, i, i + Len(sub) - 1) = sub

startsWith(s, prefix) ==
    Len(s) >= Len(prefix) /\ SubSeq(s, 1, Len(prefix)) = prefix

endsWith(s, suffix) ==
    Len(s) >= Len(suffix) /\ SubSeq(s, Len(s) - Len(suffix) + 1, Len(s)) = suffix

\* String.prototype.substring: the indices are clamped to the string and
\* swapped when the first is the larger
substring(s, from, to) ==
    LET clamp(i) == IF i < 0 THEN 0 ELSE IF i > Len(s) THEN Len(s) ELSE i
        lo == IF clamp(from) <= clamp(to) THEN clamp(from) ELSE clamp(to)
        hi == IF clamp(from) <= clamp(to) THEN clamp(to) ELSE clamp(from)
    IN  SubSeq(s, lo + 1, hi)

LineTerminators == {"\n", "\r"}

StarsAt(s, p) == p + 1 <= Len(s) /\ s[p] = "*" /\ s[p + 1] = "*"

\* the positions q at which /\*\*.*?\*\*/ starting at p finds its closing
\* pair of stars: the first pair from p + 2 on, with no line break before it
closingStars(s, p) ==
    {q \in (p + 2)..(Len(s) - 1) :
        /\ StarsAt(s, q)
        /\ \A r \in (p + 2)..(q - 1) : ~StarsAt(s, r)
        /\ \A j \in (p + 2)..(q - 1) : s[j] \notin LineTerminators}

\* text.split(/(\*\*.*?\*\*)/g): the text before each match and the match,
\* then the rest; the part in progress starts at from, the scan is at p
RECURSIVE splitEmphasisFrom(_, _, _)
splitEmphasisFrom(s, from, p) ==
    IF p > Len(s) THEN <<SubSeq(s, from, Len(s))>>
    ELSE IF StarsAt(s, p) /\ closingStars(s, p) # {}
    THEN LET q == CHOOSE q \in closingStars(s, p) : TRUE
         IN  <<SubSeq(s, from, p - 1), SubSeq(s, p, q + 1)>>
             \o splitEmphasisFrom(s, q + 2, q + 2)
    ELSE splitEmphasisFrom(s, from, p + 1)

renderTextWithHighlights(text) ==
    IF ~includes(text, <<"*", "*">>)
    THEN <<[strong |-> FALSE, text |-> text]>>
    ELSE LET parts == splitEmphasisFrom(text, 1, 1)
         IN  [i \in 1..Len(parts) |->
                IF startsWith(parts[i], <<"*", "*">>)
                   /\ endsWith(parts[i], <<"*", "*">>)
                THEN [strong |-> TRUE,
                      text |-> substring(parts[i], 2, Len(parts[i]) - 2)]
                ELSE [strong |-> FALSE, text |-> parts[i]]]

\* the colour of a word in word mode, reading the end of the word
wordColorByEnd(w, now) ==
    IF RGeq(now, w.end) THEN "highlightColor" ELSE "textColor"

\* the colour of a word in word mode, as the name of the styleOptions field
wordColor(w, now) ==
    IF RGeq(now, w.start) THEN "highlightColor" ELSE "textColor"

\* SubtitleDisplay.renderContent for a caption that is shown
renderContent(sub, options, now) ==
    IF options.animation = "KARAOKE"
    THEN [kind |-> "karaoke",
          gradientPercentage |-> gradientPercentage(sub, now),
          children |-> renderTextWithHighlights(sub.text)]
    ELSE IF options.animation = "WORD" /\ Len(sub.words) > 0
    THEN [kind |-> "word",
          children |-> [i \in 1..Len(sub.words) |->
                          [text |-> sub.words[i].word \o <<" ">>,
                           color |-> wordColor(sub.words[i], now)]]]
    ELSE [kind |-> "plain",
          color |-> "textColor",
          children |-> renderTextWithHighlights(sub.text)]

\* the overlay of VideoPlayer: SubtitleDisplay is rendered for a non-null
\* activeSubtitle
Displayed == activeSubtitle # None
display == renderContent(Value(activeSubtitle), styleOptions, currentTime)

Init ==
    /\ \E stylePreset \in StylePreset : EditorMounted(stylePreset)
    /\ \E subs \in GeneratedCollections : SessionInit(subs)
    /\ TimestampIdle
    /\ rewrapped = None
    /\ setActiveSubtitleCalled = FALSE

Next ==
    \/ \E now \in PlaybackTimes : handleTimeUpdate(now)
    \/ \E index \in 1..Len(subtitles) : handleEditStart(index)
    \/ \E text \in EditTexts : setEditText(text)
    \/ \E index \in 1..Len(subtitles) : handleSave(index)
    \/ handleKeyDownEscape
    \/ openSrtModal
    \/ closeSrtModal
    \/ selectLines
    \/ selectWords
    \/ \E key \in {"maxCharsPerLine", "maxLinesPerCard"},
          numValue \in NumericInputs : handleNumericChange(key, numValue)
    \/ handleSrtExport
    \/ handleVttExport
    \/ \E value \in {"NONE", "KARAOKE", "WORD"} :
          handleStyleChange("animation", value)

Spec == Init /\ [][Next]_vars

\* C1: a clock tick at time t makes the active caption the lowest-index
\* caption c with c.start <= t <= c.end, and none when no caption contains t
\* (so {start:2, end:4} is active at 2 and at 4, not at 1.999 nor at 4.001).
Containing(t) ==
    {k \in 1..Len(subtitles) :
        RLeq(subtitles[k].start, t) /\ RLeq(t, subtitles[k].end)}

Lowest(S) == CHOOSE k \in S : \A j \in S : k <= j

C1_TickResolvesFirstMatch ==
    [][\A now \in PlaybackTimes :
          handleTimeUpdate(now) =>
             /\ currentTime' = now
             /\ activeSubtitle' = IF Containing(now) = {} THEN None
                                  ELSE Some(subtitles[Lowest(Containing(now))])
             /\ (Len(subtitles) = 1 /\ subtitles[1].start = Sec(2)
                 /\ subtitles[1].end = Sec(4)) =>
                   /\ now \in {Sec(2), Sec(4)} => activeSubtitle' = Some(subtitles[1])
                   /\ now \in {Ms(1999), Ms(4001)} => activeSubtitle' = None]_vars

C1_Witness ==
    /\ Len(subtitles) = 1
    /\ subtitles[1].start = Sec(2)
    /\ subtitles[1].end = Sec(4)
    /\ currentTime = Sec(4)
    /\ activeSubtitle = Some(subtitles[1])

----------------------------------------------------------------------------
(* Specification of formatTimestamp over a bounded set of arguments *)

MaxQuarterSeconds == 48

TimestampInputs ==
    {Ms(250 * k) : k \in 0..MaxQuarterSeconds}
    \cup {Ms(1), Ms(999), Ms(1500), Ms(1999), Ms(4001), Rat(4, 3), Rat(8, 3),
          Sec(59), Sec(60), Sec(61), Sec(3599), Sec(3600), Sec(3661),
          Sec(86399), Sec(86400), Sec(90000), Ms(359999999), Sec(360000)}

CallFormatTimestamp(seconds, format) ==
    /\ tsSeconds' = seconds
    /\ tsFormat' = format
    /\ tsResult' = Some(formatTimestamp(seconds, format))
    /\ UNCHANGED <<sessionVars, rewrapped, styleOptions, appVars,
                   playerTrace>>

InitTimestamp ==
    /\ EditorMounted("STANDARD")
    /\ SessionInit(<<>>)
    /\ TimestampIdle
    /\ rewrapped = None
    /\ setActiveSubtitleCalled = FALSE

NextTimestamp ==
    \E seconds \in TimestampInputs, format \in {"srt", "vtt"} :
        CallFormatTimestamp(seconds, format)

SpecTimestamp == InitTimestamp /\ [][NextTimestamp]_vars

----------------------------------------------------------------------------
(* Reading a timestamp back *)

IsDigit(c) == \E k \in 1..10 : Digits[k] = c

DigitValue(c) == (CHOOSE k \in 1..10 : Digits[k] = c) - 1

RECURSIVE ParseNat(_)
ParseNat(s) ==
    IF Len(s) = 0 THEN 0
    ELSE 10 * ParseNat(SubSeq(s, 1, Len(s) - 1)) + DigitValue(s[Len(s)])

AllDigits(s) == \A k \in 1..Len(s) : IsDigit(s[k])

\* the fields of H..H:MM:SS<sep>mmm, counted from the right end
HoursField(ts) == SubSeq(ts, 1, Len(ts) - 10)
MinutesField(ts) == SubSeq(ts, Len(ts) - 8, Len(ts) - 7)
SecondsField(ts) == SubSeq(ts, Len(ts) - 5, Len(ts) - 4)
MillisField(ts) == SubSeq(ts, Len(ts) - 2, Len(ts))
SeparatorOf(ts) == ts[Len(ts) - 3]

WellShaped(ts, sep) ==
    /\ Len(ts) >= 12
    /\ AllDigits(HoursField(ts))
    /\ ts[Len(ts) - 9] = ":"
    /\ AllDigits(MinutesField(ts))
    /\ ts[Len(ts) - 6] = ":"
    /\ AllDigits(SecondsField(ts))
    /\ SeparatorOf(ts) = sep
    /\ AllDigits(MillisField(ts))
    /\ ParseNat(MinutesField(ts)) < 60
    /\ ParseNat(SecondsField(ts)) < 60

\* whole milliseconds of a non-negative rational number of seconds
WholeMs(a) == (a[1] \div a[2]) * 1000 + ((a[1] % a[2]) * 1000) \div a[2]

\* the milliseconds a well-shaped timestamp stands for
ReadBackMs(ts) ==
    ParseNat(HoursField(ts)) * 3600000 + ParseNat(MinutesField(ts)) * 60000
    + ParseNat(SecondsField(ts)) * 1000 + ParseNat(MillisField(ts))

OtherFormat(format) == IF format = "srt" THEN "vtt" ELSE "srt"
SeparatorFor(format) == IF format = "srt" THEN "," ELSE "."

\* C6: for a non-negative argument formatTimestamp returns HH:MM:SS<sep>mmm,
\* hours, minutes and seconds of at least 2 digits, milliseconds of exactly 3,
\* <sep> being ',' for srt and '.' for vtt; the result for the other format
\* is the same string with only the separator character replaced.
C6_TimestampShape ==
    tsResult # None =>
        /\ WellShaped(Value(tsResult), SeparatorFor(tsFormat))
        /\ formatTimestamp(tsSeconds, OtherFormat(tsFormat))
             = [Value(tsResult) EXCEPT ![Len(Value(tsResult)) - 3] =
                    SeparatorFor(OtherFormat(tsFormat))]

C6_Witness ==
    /\ tsResult = Some(<<"0", "1", ":", "0", "1", ":", "0", "1", ".", "0", "0", "0">>)
    /\ tsSeconds = Sec(3661)
    /\ tsFormat = "vtt"

\* C7: for s in [0, 359999.999] the srt timestamp read back as
\* hours*3600 + minutes*60 + seconds + milliseconds/1000 is s to the
\* millisecond.
C7_TimestampRoundTrip ==
    (tsResult # None /\ tsFormat = "srt" /\ RLeq(tsSeconds, Ms(359999999))) =>
        ReadBackMs(Value(tsResult)) = WholeMs(tsSeconds)

\* C8: for a duration of 24 hours or more the hours field is
\* floor(seconds / 3600).
C8_HoursNotWrapped ==
    (tsResult # None /\ RGeq(tsSeconds, Sec(86400))) =>
        ParseNat(HoursField(Value(tsResult))) = ToInteger(tsSeconds) \div 3600

----------------------------------------------------------------------------
(* Specification of rewrapSubtitles over a bounded set of arguments *)

MaxTextLen == 5
MaxCharsBound == 4
MaxLinesBound == 3

\* all texts of a given length over the letter a and the space
RECURSIVE TextsOfLen(_)
TextsOfLen(n) ==
    IF n = 0 THEN {<<>>}
    ELSE {Append(t, c) : t \in TextsOfLen(n - 1), c \in {"a", " "}}

FoxText ==
    <<"T", "h", "e", " ", "q", "u", "i", "c", "k", " ", "b", "r", "o", "w",
    "n", " ", "f", "o", "x", " ", "j", "u", "m", "p", "s", " ", "o", "v",
    "e", "r", " ", "t", "h", "e", " ", "l", "a", "z", "y", " ", "d", "o",
    "g">>

SampleTexts ==
    UNION {TextsOfLen(n) : n \in 0..MaxTextLen}
    \cup {FoxText,
          <<" ", "a", "b", " ", " ", "c", "\n", "d", "e", "\t", "f", " ">>,
          <<"a", "b", "c", "d", "e", "f", "g", " ", "h", " ", "i", " ", "j">>,
          <<"a", " ", "a", " ", "a", "a", "a", "a", " ", "a">>}

SampleSpans ==
    {<<Sec(0), Sec(4)>>, <<Ms(500), Ms(2750)>>, <<Sec(5), Sec(5)>>}

RewrapCollections ==
    {<<caption(1, t, sp, <<>>)>> : t \in SampleTexts, sp \in SampleSpans}
    \cup {<<caption(1, t, <<Sec(0), Sec(2)>>, <<>>),
            caption(2, u, <<Sec(2), Sec(3)>>, <<>>)>> :
            t \in TextsOfLen(3), u \in TextsOfLen(2)}

RewrapLimits ==
    [type : {"lines"},
     maxCharsPerLine : (1..MaxCharsBound) \cup {20, 42},
     maxLinesPerCard : 1..MaxLinesBound]

\* the call at the guard of exportToSRT: both limits are positive
CallRewrapSubtitles ==
    /\ srtExportOptions.maxCharsPerLine > 0
    /\ srtExportOptions.maxLinesPerCard > 0
    /\ rewrapped' = Some(rewrapSubtitles(subtitles,
                                         srtExportOptions.maxCharsPerLine,
                                         srtExportOptions.maxLinesPerCard))
    /\ UNCHANGED <<sessionVars, tsVars, styleOptions, appVars,
                   playerTrace>>

InitRewrap ==
    /\ EditorMounted("STANDARD")
    /\ \E subs \in RewrapCollections, limits \in RewrapLimits :
          /\ subtitles = subs
          /\ srtExportOptions = limits
          /\ nextId = Len(subs) + 1
    /\ currentTime = Sec(0)
    /\ activeSubtitle = None
    /\ isSrtModalOpen = FALSE
    /\ editingIndex = None
    /\ editText = <<>>
    /\ download = None
    /\ TimestampIdle
    /\ rewrapped = None
    /\ setActiveSubtitleCalled = FALSE

NextRewrap == CallRewrapSubtitles

SpecRewrap == InitRewrap /\ [][NextRewrap]_vars

----------------------------------------------------------------------------
(* Reading a rewrapped collection back *)

\* the pieces of s between occurrences of the character c
Pieces(s, c) ==
    LET seps == {i \in 1..Len(s) : s[i] = c}
        n == Cardinality(seps)
        pos(k) == IF k = 0 THEN 0
                  ELSE IF k = n + 1 THEN Len(s) + 1
                  ELSE CHOOSE i \in seps :
                          Cardinality({j \in seps : j < i}) = k - 1
    IN  [k \in 1..(n + 1) |-> SubSeq(s, pos(k - 1) + 1, pos(k) - 1)]

LinesOf(card) == Pieces(card.text, "\n")

RECURSIVE AllLines(_)
AllLines(cards) ==
    IF Len(cards) = 0 THEN <<>> ELSE LinesOf(Head(cards)) \o AllLines(Tail(cards))

RECURSIVE AllTokens(_)
AllTokens(subs) ==
    IF Len(subs) = 0 THEN <<>>
    ELSE tokenize(Head(subs).text) \o AllTokens(Tail(subs))

HasSpace(line) == \E k \in 1..Len(line) : line[k] = " "

Rewrapped == rewrapped # None
returnedCards == Value(rewrapped)

\* C2: every line produced by rewrapSubtitles has length <= maxCharsPerLine
\* or is one token longer than maxCharsPerLine, and the tokens of the lines,
\* in order, are the tokens of the input: no token is split across lines.
C2_LineLength ==
    Rewrapped =>
        /\ \A card \in {returnedCards[k] : k \in 1..Len(returnedCards)} :
             \A line \in {LinesOf(card)[k] : k \in 1..Len(LinesOf(card))} :
                \/ Len(line) <= srtExportOptions.maxCharsPerLine
                \/ /\ ~HasSpace(line)
                   /\ Len(line) > srtExportOptions.maxCharsPerLine
                   /\ tokenize(line) = <<line>>
        /\ AllTokens(returnedCards) = AllTokens(subtitles)

C2_Witness ==
    /\ Rewrapped
    /\ srtExportOptions.maxCharsPerLine = 3
    /\ \E k \in 1..Len(returnedCards) : returnedCards[k].text = <<"a", "a", "a", "a">>
    /\ \E k \in 1..Len(returnedCards) : returnedCards[k].text = <<"a", " ", "a">>

CeilDiv(a, b) == (a + b - 1) \div b

\* C3: a caption with at least one token gives lineCount >= 1 lines and
\* ceil(lineCount / maxLinesPerCard) cards; every card but the last holds
\* exactly maxLinesPerCard lines, the last between 1 and maxLinesPerCard.
C3_CardCount ==
    (Rewrapped /\ Len(subtitles) = 1 /\ Len(tokenize(subtitles[1].text)) >= 1) =>
        LET lineCount == Len(AllLines(returnedCards))
            maxLines == srtExportOptions.maxLinesPerCard
            N == Len(returnedCards)
        IN  /\ lineCount >= 1
            /\ N = CeilDiv(lineCount, maxLines)
            /\ \A k \in 1..(N - 1) : Len(LinesOf(returnedCards[k])) = maxLines
            /\ Len(LinesOf(returnedCards[N])) \in 1..maxLines

C3_Witness ==
    /\ Rewrapped
    /\ Len(subtitles) = 1
    /\ srtExportOptions.maxLinesPerCard = 2
    /\ Len(returnedCards) = 2
    /\ Len(LinesOf(returnedCards[1])) = 2
    /\ Len(LinesOf(returnedCards[2])) = 1

RECURSIVE SumDurations(_)
SumDurations(cards) ==
    IF Len(cards) = 0 THEN Sec(0)
    ELSE RAdd(RSub(Head(cards).end, Head(cards).start), SumDurations(Tail(cards)))

\* C4: the N >= 1 cards of a caption split its span evenly: the first starts
\* at the caption's start, each card ends where the next starts, the last
\* ends at the caption's end, every card lasts duration/N, and the card
\* durations sum to the caption's duration.
C4_EvenSplit ==
    (Rewrapped /\ Len(subtitles) = 1 /\ Len(returnedCards) >= 1) =>
        LET sub == subtitles[1]
            N == Len(returnedCards)
            duration == RSub(sub.end, sub.start)
        IN  /\ returnedCards[1].start = sub.start
            /\ \A k \in 1..(N - 1) : returnedCards[k].end = returnedCards[k + 1].start
            /\ returnedCards[N].end = sub.end
            /\ \A k \in 1..N :
                 RMulInt(N, RSub(returnedCards[k].end, returnedCards[k].start)) = duration
            /\ SumDurations(returnedCards) = duration

C4_Witness ==
    /\ Rewrapped
    /\ Len(subtitles) = 1
    /\ Len(returnedCards) = 3
    /\ returnedCards[2].start = Rat(4, 3)
    /\ returnedCards[2].end = Rat(8, 3)
    /\ returnedCards[3].end = Sec(4)

----------------------------------------------------------------------------
(* Specification of exportToSRT and exportToVTT over a bounded set of       *)
(* collections and options, driven through the export handlers             *)

ExportTexts ==
    UNION {TextsOfLen(n) : n \in 0..(MaxTextLen - 2)}
    \cup {FoxText, <<"a", "a", " ", " ", "b", "\n", "c", "c", "c", "c">>}

ExportSpans == {<<Sec(0), Sec(4)>>, <<Ms(1500), Sec(90000)>>}

ExportCollections ==
    {<<>>}
    \cup {<<caption(1, t, sp, <<>>)>> : t \in ExportTexts, sp \in ExportSpans}
    \cup {<<caption(1, <<"a", " ", "a">>, <<Sec(0), Sec(2)>>, w),
            caption(2, t, <<Sec(2), Sec(3)>>, <<>>),
            caption(3, <<"b", "b">>, <<Sec(3), Ms(4500)>>, v)>> :
            t \in TextsOfLen(2),
            w \in {<<>>, <<word(<<"a">>, Sec(0), Sec(1)),
                           word(<<"a">>, Sec(1), Sec(2))>>},
            v \in {<<>>, <<word(<<"b", "b">>, Sec(3), Ms(4500))>>}}

ExportOptions ==
    [type : {"lines", "words"},
     maxCharsPerLine : {-1, 0, 3, 20, 42},
     maxLinesPerCard : {0, 1, 2}]

InitExport ==
    /\ EditorMounted("STANDARD")
    /\ \E subs \in ExportCollections, options \in ExportOptions :
          /\ subtitles = subs
          /\ srtExportOptions = options
          /\ nextId = Len(subs) + 1
    /\ currentTime = Sec(0)
    /\ activeSubtitle = None
    /\ isSrtModalOpen = FALSE
    /\ editingIndex = None
    /\ editText = <<>>
    /\ download = None
    /\ TimestampIdle
    /\ rewrapped = None
    /\ setActiveSubtitleCalled = FALSE

NextExport ==
    \/ openSrtModal
    \/ handleSrtExport
    \/ handleVttExport
    \/ CallRewrapSubtitles

SpecExport == InitExport /\ [][NextExport]_vars

----------------------------------------------------------------------------
(* Reading an SRT file back *)

\* the maximal runs of non-empty lines, from line i on
RECURSIVE BlocksFrom(_, _, _)
BlocksFrom(lines, i, block) ==
    IF i > Len(lines) THEN (IF Len(block) > 0 THEN <<block>> ELSE <<>>)
    ELSE IF Len(lines[i]) = 0
         THEN (IF Len(block) > 0 THEN <<block>> ELSE <<>>)
              \o BlocksFrom(lines, i + 1, <<>>)
         ELSE BlocksFrom(lines, i + 1, Append(block, lines[i]))

\* the entries of an SRT file whose texts hold no empty line
SrtEntries(content) ==
    LET blocks == BlocksFrom(Pieces(content, "\n"), 1, <<>>)
    IN  [k \in 1..Len(blocks) |->
            LET timing == Pieces(blocks[k][2], " ")
            IN  [n |-> blocks[k][1],
                 start |-> timing[1],
                 arrow |-> timing[2],
                 end |-> timing[3],
                 text |-> join(SubSeq(blocks[k], 3, Len(blocks[k])), <<"\n">>)]]

SrtDownloaded == download # None /\ Value(download).extension = "srt"
srtContent == Value(download).content

RewrapApplies(options) ==
    options.maxCharsPerLine > 0 /\ options.maxLinesPerCard > 0

\* the file of the given captions, entry by entry, numbered from n
RECURSIVE SrtFileFrom(_, _)
SrtFileFrom(caps, n) ==
    IF Len(caps) = 0 THEN <<>>
    ELSE NatToString(n) \o <<"\n">>
         \o formatTimestamp(Head(caps).start, "srt")
         \o <<" ", "-", "-", ">", " ">>
         \o formatTimestamp(Head(caps).end, "srt")
         \o <<"\n">> \o Head(caps).text \o <<"\n">>
         \o (IF Len(caps) > 1 THEN <<"\n">> ELSE <<>>)
         \o SrtFileFrom(Tail(caps), n + 1)

NoWords == \A k \in 1..Len(subtitles) : Len(subtitles[k].words) = 0

\* C5: the caption "The quick brown fox jumps over the lazy dog" from 0 to 4,
\* exported to SRT in line mode with maxCharsPerLine = 20 and
\* maxLinesPerCard = 1, gives 3 entries numbered 1, 2, 3 with the texts
\* "The quick brown", "fox jumps over the", "lazy dog", each spanning 4/3
\* seconds (1333 or 1334 ms once written with millisecond precision).
FoxScenario ==
    /\ subtitles = <<caption(1, FoxText, <<Sec(0), Sec(4)>>, <<>>)>>
    /\ srtExportOptions =
          [type |-> "lines", maxCharsPerLine |-> 20, maxLinesPerCard |-> 1]
    /\ SrtDownloaded

FoxTextsAndNumbers ==
    LET entries == SrtEntries(srtContent)
    IN  /\ Len(entries) = 3
        /\ entries[1].n = <<"1">> /\ entries[2].n = <<"2">>
        /\ entries[3].n = <<"3">>
        /\ entries[1].text = SubSeq(FoxText, 1, 15)
        /\ entries[2].text = SubSeq(FoxText, 17, 34)
        /\ entries[3].text = SubSeq(FoxText, 36, 43)

C9_SrtLineModeFormat ==
    (SrtDownloaded /\ srtExportOptions.type = "lines") =>
        LET exported == IF RewrapApplies(srtExportOptions)
                        THEN rewrapSubtitles(subtitles,
                                             srtExportOptions.maxCharsPerLine,
                                             srtExportOptions.maxLinesPerCard)
                        ELSE subtitles
            entries == SrtEntries(srtContent)
        IN  /\ srtContent = SrtFileFrom(exported, 1)
            /\ Len(subtitles) = 0 => srtContent = <<>>
            /\ (\A k \in 1..Len(exported) :
                   /\ Len(tokenize(exported[k].text)) > 0
                   /\ \A j \in 1..(Len(exported[k].text) - 1) :
                         exported[k].text[j] # "\n"
                         \/ exported[k].text[j + 1] # "\n") =>
                  /\ Len(entries) = Len(exported)
                  /\ \A k \in 1..Len(entries) :
                        /\ entries[k].n = NatToString(k)
                        /\ WellShaped(entries[k].start, ",")
                        /\ WellShaped(entries[k].end, ",")
                        /\ entries[k].arrow = <<"-", "-", ">">>

C9_Witness ==
    /\ SrtDownloaded
    /\ srtExportOptions.type = "lines"
    /\ RewrapApplies(srtExportOptions)
    /\ Len(subtitles) = 1
    /\ subtitles[1].text = FoxText
    /\ Len(SrtEntries(srtContent)) = 9
    /\ SrtEntries(srtContent)[9].n = <<"9">>
    /\ SrtEntries(srtContent)[9].text = <<"d", "o", "g">>

\* C10: when no caption carries words, exportToSRT in word mode returns,
\* whatever maxCharsPerLine and maxLinesPerCard are, the line-mode file of
\* the captions exported verbatim, one entry per caption; it is never empty
\* for a non-empty collection.
C10_WordFallbackVerbatim ==
    (SrtDownloaded /\ srtExportOptions.type = "words" /\ NoWords) =>
        /\ srtContent = SrtFileFrom(subtitles, 1)
        /\ Len(subtitles) > 0 => srtContent # <<>>

\* the number of words carried by the captions before the c-th
RECURSIVE WordsBefore(_)
WordsBefore(c) ==
    IF c <= 1 THEN 0 ELSE WordsBefore(c - 1) + Len(subtitles[c - 1].words)

\* C11: when some caption carries words, exportToSRT in word mode emits one
\* entry per Word, by caption index and then word index, numbered 1, 2, ...,
\* with the word's own start and end as srt timestamps and the bare word as
\* text; the limits of the options play no part.
C11_WordModeEntries ==
    (SrtDownloaded /\ srtExportOptions.type = "words" /\ ~NoWords) =>
        LET entries == SrtEntries(srtContent)
            M == WordsBefore(Len(subtitles) + 1)
        IN  /\ Len(entries) = M
            /\ \A c \in 1..Len(subtitles) :
                 \A j \in 1..Len(subtitles[c].words) :
                    LET k == WordsBefore(c) + j
                        w == subtitles[c].words[j]
                    IN  /\ entries[k].n = NatToString(k)
                        /\ entries[k].start = formatTimestamp(w.start, "srt")
                        /\ entries[k].arrow = <<"-", "-", ">">>
                        /\ entries[k].end = formatTimestamp(w.end, "srt")
                        /\ entries[k].text = w.word
            /\ Len(srtContent) = M - 1
                 + M * (Len(formatTimestamp(Sec(0), "srt")) + Len(<<" ", "-", "-", ">", " ">>)
                        + Len(formatTimestamp(Sec(0), "srt")) + 3)
                 + Len(join([k \in 1..M |-> entries[k].n \o entries[k].text],
                            <<>>))

C11_Witness ==
    /\ SrtDownloaded
    /\ srtExportOptions.type = "words"
    /\ RewrapApplies(srtExportOptions)
    /\ Len(subtitles) = 3
    /\ Len(SrtEntries(srtContent)) = 3
    /\ SrtEntries(srtContent)[3].text = <<"b", "b">>
    /\ SrtEntries(srtContent)[3].n = <<"3">>

VttDownloaded == download # None /\ Value(download).extension = "vtt"
vttContent == Value(download).content

\* the entries of a VTT body, one after the other
RECURSIVE VttBodyFrom(_)
VttBodyFrom(caps) ==
    IF Len(caps) = 0 THEN <<>>
    ELSE formatTimestamp(Head(caps).start, "vtt")
         \o <<" ", "-", "-", ">", " ">>
         \o formatTimestamp(Head(caps).end, "vtt")
         \o <<"\n">> \o Head(caps).text \o <<"\n">>
         \o (IF Len(caps) > 1 THEN <<"\n">> ELSE <<>>)
         \o VttBodyFrom(Tail(caps))

\* the blocks of non-empty lines of a file
BlocksOf(content) == BlocksFrom(Pieces(content, "\n"), 1, <<>>)

PlainText(text) ==
    /\ Len(tokenize(text)) > 0
    /\ text[1] # "\n"
    /\ text[Len(text)] # "\n"
    /\ \A j \in 1..(Len(text) - 1) : text[j] # "\n" \/ text[j + 1] # "\n"

\* C12: exportToVTT returns "WEBVTT\n\n" and then one entry per input
\* caption, in order, "<start> --> <end>\n<text>\n" with vtt timestamps and
\* no sequence number, entries one blank line apart; text and span are those
\* of the caption whatever the SRT export options are.
C12_VttFormat ==
    VttDownloaded =>
        /\ vttContent
             = <<"W", "E", "B", "V", "T", "T", "\n", "\n">> \o VttBodyFrom(subtitles)
        /\ (\A k \in 1..Len(subtitles) : PlainText(subtitles[k].text)) =>
              LET blocks == BlocksOf(vttContent)
              IN  /\ Len(blocks) = Len(subtitles) + 1
                  /\ blocks[1] = << <<"W", "E", "B", "V", "T", "T">> >>
                  /\ \A k \in 1..Len(subtitles) :
                        LET timing == Pieces(blocks[k + 1][1], " ")
                        IN  /\ WellShaped(timing[1], ".")
                            /\ timing[2] = <<"-", "-", ">">>
                            /\ WellShaped(timing[3], ".")
                            /\ join(Tail(blocks[k + 1]), <<"\n">>)
                                 = subtitles[k].text

C12_Witness ==
    /\ VttDownloaded
    /\ RewrapApplies(srtExportOptions)
    /\ srtExportOptions.maxCharsPerLine = 3
    /\ Len(subtitles) = 1
    /\ subtitles[1].text = FoxText
    /\ Len(BlocksOf(vttContent)) = 2

\* C13: in SRT line mode the captions are rewrapped exactly when
\* maxCharsPerLine > 0 and maxLinesPerCard > 0; when either is <= 0 every
\* caption, one without tokens included, is exported as one entry with its
\* own text, start and end.
C13_RewrapOnlyWhenBothPositive ==
    (SrtDownloaded /\ srtExportOptions.type = "lines") =>
        IF srtExportOptions.maxCharsPerLine > 0
           /\ srtExportOptions.maxLinesPerCard > 0
        THEN Rewrapped => srtContent = SrtFileFrom(returnedCards, 1)
        ELSE /\ srtContent = SrtFileFrom(subtitles, 1)
             /\ (\A k \in 1..Len(subtitles) :
                    Len(subtitles[k].text) > 0 /\ subtitles[k].text[1] # "\n") =>
                   Len(BlocksOf(srtContent)) = Len(subtitles)

C13_Witness ==
    /\ SrtDownloaded
    /\ srtExportOptions.type = "lines"
    /\ srtExportOptions.maxCharsPerLine = 0
    /\ srtExportOptions.maxLinesPerCard = 2
    /\ Len(subtitles) = 3
    /\ subtitles[2].text = <<" ", " ">>
    /\ Len(BlocksOf(srtContent)) = 3

\* the ways of cutting N cards into one run of consecutive cards per caption
Cuts(n, N) ==
    {b \in [0..n -> 0..N] :
        /\ b[0] = 0
        /\ b[n] = N
        /\ \A k \in 1..n : b[k - 1] <= b[k]}

\* C14: the output of rewrapSubtitles is, in input order, the cards of the
\* first caption, then those of the second, and so on: a caption without a
\* token has no card, a caption with a token has at least one, and the cards
\* of a caption carry its tokens and cover its span.
C14_OrderPreserved ==
    Rewrapped =>
        \E b \in Cuts(Len(subtitles), Len(returnedCards)) :
            \A k \in 1..Len(subtitles) :
                LET own == SubSeq(returnedCards, b[k - 1] + 1, b[k])
                    sub == subtitles[k]
                IN  /\ (Len(own) = 0) <=> (Len(tokenize(sub.text)) = 0)
                    /\ AllTokens(own) = tokenize(sub.text)
                    /\ Len(own) > 0 =>
                          /\ own[1].start = sub.start
                          /\ own[Len(own)].end = sub.end

C14_Witness ==
    /\ Rewrapped
    /\ Len(subtitles) = 2
    /\ subtitles[1].text = <<"a", " ", "a">>
    /\ subtitles[2].text = <<"a", "a">>
    /\ srtExportOptions.maxCharsPerLine = 1
    /\ srtExportOptions.maxLinesPerCard = 1
    /\ Len(returnedCards) = 3
    /\ returnedCards[2].end = Sec(2)
    /\ returnedCards[3].text = <<"a", "a">>

C14_DroppedWitness ==
    /\ Rewrapped
    /\ Len(subtitles) = 2
    /\ Len(tokenize(subtitles[1].text)) = 0
    /\ Len(returnedCards) = 1
    /\ returnedCards[1].start = Sec(2)

\* C15: for a caption of zero duration that is shown, the karaoke gradient
\* percentage is a finite number equal to 0 or 100.
C15_ZeroDurationFinite ==
    (Displayed /\ styleOptions.animation = "KARAOKE"
     /\ Value(activeSubtitle).start = Value(activeSubtitle).end) =>
        display.gradientPercentage \in {Sec(0), Sec(100)}

\* 100 * min(1, max(0, x)) for a rational x
clamp01Times100(x) ==
    IF RLeq(x, Sec(0)) THEN Sec(0)
    ELSE IF RLeq(Sec(1), x) THEN Sec(100)
    ELSE Rat(100 * x[1], x[2])

\* C16: for a shown caption with end > start the karaoke gradient percentage
\* is 100 * min(1, max(0, (t - start) / (end - start))) at every playback
\* time t: within [0, 100], 0 at start, 100 at end, non-decreasing in t.
C16_KaraokeClamped ==
    (Displayed /\ styleOptions.animation = "KARAOKE"
     /\ Value(activeSubtitle).start # Value(activeSubtitle).end
     /\ RLeq(Value(activeSubtitle).start, Value(activeSubtitle).end)) =>
        LET sub == Value(activeSubtitle)
            span == RSub(sub.end, sub.start)
            ratio(t) == Rat(RSub(t, sub.start)[1] * span[2],
                            RSub(t, sub.start)[2] * span[1])
        IN  /\ display.kind = "karaoke"
            /\ display.gradientPercentage = clamp01Times100(ratio(currentTime))
            /\ \A t \in PlaybackTimes :
                  /\ gradientPercentage(sub, t) = clamp01Times100(ratio(t))
                  /\ RLeq(Sec(0), gradientPercentage(sub, t))
                  /\ RLeq(gradientPercentage(sub, t), Sec(100))
            /\ gradientPercentage(sub, sub.start) = Sec(0)
            /\ gradientPercentage(sub, sub.end) = Sec(100)
            /\ \A t, u \in PlaybackTimes :
                  RLeq(t, u) =>
                     RLeq(gradientPercentage(sub, t), gradientPercentage(sub, u))

C16_Witness ==
    /\ Displayed
    /\ styleOptions.animation = "KARAOKE"
    /\ Value(activeSubtitle).start = Sec(2)
    /\ Value(activeSubtitle).end = Sec(5)
    /\ currentTime = Sec(4)
    /\ display.gradientPercentage = Rat(200, 3)

WordMode == Displayed /\ styleOptions.animation = "WORD"
shown == Value(activeSubtitle)

\* every word of the shown caption is its own span, in the highlight colour
\* exactly when the playback time has reached the start of the word
WordsRevealedByStart ==
    (WordMode /\ Len(shown.words) > 0) =>
        /\ display.kind = "word"
        /\ Len(display.children) = Len(shown.words)
        /\ \A i \in 1..Len(shown.words) :
              /\ display.children[i].text = shown.words[i].word \o <<" ">>
              /\ display.children[i].color \in {"highlightColor", "textColor"}
              /\ (display.children[i].color = "highlightColor")
                    <=> RLeq(shown.words[i].start, currentTime)
              /\ \A t, u \in PlaybackTimes :
                    (RLeq(t, u) /\ wordColor(shown.words[i], t) = "highlightColor")
                        => wordColor(shown.words[i], u) = "highlightColor"

RECURSIVE WithoutStars(_)
WithoutStars(s) ==
    IF Len(s) = 0 THEN <<>>
    ELSE IF Head(s) = "*" THEN WithoutStars(Tail(s))
    ELSE <<Head(s)>> \o WithoutStars(Tail(s))

RECURSIVE TextOf(_)
TextOf(children) ==
    IF Len(children) = 0 THEN <<>>
    ELSE Head(children).text \o TextOf(Tail(children))

C17_FallbackWitness ==
    /\ WordMode
    /\ shown.text = <<"*", "*", "b", "*", "*", " ", "a">>
    /\ display.children = <<[strong |-> FALSE, text |-> <<>>],
                            [strong |-> TRUE, text |-> <<"b">>],
                            [strong |-> FALSE, text |-> <<" ", "a">>]>>

\* one step that changes the collection replaces the text of the caption in
\* edit by the trimmed content of the textarea and clears its words
OneTextReplaced ==
    subtitles' # subtitles =>
        /\ editingIndex # None
        /\ Len(subtitles') = Len(subtitles)
        /\ LET index == Value(editingIndex)
               newText == trim(editText)
           IN  /\ subtitles'[index].text = newText
               /\ subtitles'[index].words = <<>>
               /\ subtitles'[index].start = subtitles[index].start
               /\ subtitles'[index].end = subtitles[index].end
               /\ subtitles'[index].id # subtitles[index].id
               /\ \A k \in 1..Len(subtitles) :
                     k # index => subtitles'[k] = subtitles[k]

\* every caption is the object the generation service returned, or a later
\* object without words at the same place and with the same span
NoTextChangeKeepsWords ==
    \E subs \in GeneratedCollections :
        /\ Len(subs) = Len(subtitles)
        /\ \A k \in 1..Len(subs) :
              \/ subtitles[k] = subs[k]
              \/ /\ subtitles[k].id > Len(subs)
                 /\ subtitles[k].words = <<>>
                 /\ subtitles[k].start = subs[k].start
                 /\ subtitles[k].end = subs[k].end

\* C18: the caption collection changes only by handleUpdateSubtitle(index,
\* newText): the caption at index gets newText and no words and keeps its
\* span, every other caption stays the same object, length and order stay;
\* so no state holds a caption with a changed text and its former words.
C18_OnlyTextReplacement ==
    [][OneTextReplaced /\ NoTextChangeKeepsWords']_vars

C18_Witness ==
    /\ Len(subtitles) = 2
    /\ subtitles[1].text = <<"x">>
    /\ subtitles[1].words = <<>>
    /\ subtitles[1].id = 3
    /\ subtitles[2].id = 2
    /\ Len(subtitles[2].words) = 1

----------------------------------------------------------------------------
(* The App: upload, generation and the way back                            *)

\* the characters of a string
Chars(str) == [i \in 1..Len(str) |-> SubSeq(str, i, i)]

UpperCase == Chars("ABCDEFGHIJKLMNOPQRSTUVWXYZ")
LowerCase == Chars("abcdefghijklmnopqrstuvwxyz")

\* String.prototype.toLowerCase over the ASCII letters
toLowerCase(s) ==
    [i \in 1..Len(s) |->
        IF \E k \in 1..Len(UpperCase) : UpperCase[k] = s[i]
        THEN LowerCase[CHOOSE k \in 1..Len(UpperCase) : UpperCase[k] = s[i]]
        ELSE s[i]]

\* String.prototype.replace with a string pattern: the first occurrence
replace(s, pattern, replacement) ==
    IF ~includes(s, pattern) THEN s
    ELSE LET i == CHOOSE i \in 1..(Len(s) - Len(pattern) + 1) :
                     /\ SubSeq(s, i, i + Len(pattern) - 1) = pattern
                     /\ \A j \in 1..(i - 1) :
                           SubSeq(s, j, j + Len(pattern) - 1) # pattern
         IN  SubSeq(s, 1, i - 1) \o replacement
             \o SubSeq(s, i + Len(pattern), Len(s))

\* a promise that is fulfilled with a value, or rejected with an Error
Resolved(value) == [ok |-> TRUE, value |-> value, message |-> <<>>]
Rejected(message) == [ok |-> FALSE, value |-> Null, message |-> message]

MAX_FILE_SIZE_MB == 500
MAX_FILE_SIZE_BYTES == MAX_FILE_SIZE_MB * 1024 * 1024

\* (file.size / 1024 / 1024).toFixed(2)
fileSizeMB(size) ==
    LET whole == size \div (1024 * 1024)
        rest == size % (1024 * 1024)
        hundredths ==
            100 * whole + (2 * 100 * rest + 1024 * 1024) \div (2 * 1024 * 1024)
    IN  NatToString(hundredths \div 100) \o <<".">>
        \o padStart(NatToString(hundredths % 100), 2, "0")

\* validateFileSize rejecting a file of exactly the ceiling as well
validateFileSizeInclusive(f) ==
    IF f.size >= MAX_FILE_SIZE_BYTES
    THEN Rejected(Chars("File is too large (") \o fileSizeMB(f.size)
                  \o Chars("MB). Please use a file under ")
                  \o NatToString(MAX_FILE_SIZE_MB) \o Chars("MB."))
    ELSE Resolved(Null)

\* the Error validateFileSize throws, if any
validateFileSize(f) ==
    IF f.size > MAX_FILE_SIZE_BYTES
    THEN Rejected(Chars("File is too large (") \o fileSizeMB(f.size)
                  \o Chars("MB). Please use a file under ")
                  \o NatToString(MAX_FILE_SIZE_MB) \o Chars("MB."))
    ELSE Resolved(Null)

\* reader.result.split(',')[1] is empty for a file without bytes
fileToGenerativePart(f) ==
    IF f.size = 0 THEN Rejected(Chars("Failed to read file data."))
    ELSE Resolved(Null)

\* handleApiError looking for 'quota' without lowering the case
handleApiErrorCaseSensitiveQuota(message) ==
    IF Len(message) > 0
       /\ (includes(message, Chars("xhr error"))
           \/ includes(message, Chars("500"))
           \/ includes(message, Chars("FETCH_ERROR")))
    THEN Chars("A network error occurred, which can happen with large files or an unstable connection. Please try a smaller file or check your connection.")
    ELSE IF Len(message) > 0 /\ includes(message, Chars("API_KEY_INVALID"))
    THEN Chars("Your API key appears to be invalid. Please check your environment configuration and ensure it is set correctly.")
    ELSE IF Len(message) > 0 /\ includes(message, Chars("quota"))
    THEN Chars("The API quota has been exceeded. Please check your Google AI account for usage limits.")
    ELSE Chars("The AI service failed to process the video. Please try again later.")

handleApiError(message) ==
    IF Len(message) > 0
       /\ (includes(message, Chars("xhr error"))
           \/ includes(message, Chars("500"))
           \/ includes(message, Chars("FETCH_ERROR")))
    THEN Chars("A network error occurred, which can happen with large files or an unstable connection. Please try a smaller file or check your connection.")
    ELSE IF Len(message) > 0 /\ includes(message, Chars("API_KEY_INVALID"))
    THEN Chars("Your API key appears to be invalid. Please check your environment configuration and ensure it is set correctly.")
    ELSE IF Len(message) > 0 /\ includes(toLowerCase(message), Chars("quota"))
    THEN Chars("The API quota has been exceeded. Please check your Google AI account for usage limits.")
    ELSE Chars("The AI service failed to process the video. Please try again later.")

\* JSON.stringify without indentation, for arrays of objects whose members
\* are strings (text, title, description, word), whole numbers (start, end)
\* and arrays of Word (words)
JsonMembers == <<"text", "title", "description", "word", "start", "end", "words">>

RECURSIVE stringifyArray(_)
stringifyObject(obj) ==
    LET present == SelectSeq(JsonMembers, LAMBDA m : m \in DOMAIN obj)
        member(m) ==
            <<"\"">> \o Chars(m) \o <<"\"", ":">>
            \o (IF m \in {"start", "end"} THEN NatToString(obj[m][1])
                ELSE IF m = "words" THEN stringifyArray(obj[m])
                ELSE <<"\"">> \o obj[m] \o <<"\"">>)
    IN  <<"{">> \o join([k \in 1..Len(present) |-> member(present[k])], <<",">>)
        \o <<"}">>

stringifyArray(array) ==
    <<"[">> \o join([k \in 1..Len(array) |-> stringifyObject(array[k])], <<",">>)
    \o <<"]">>

\* the JSON values the documents of the model denote
JsonValues ==
    {<<>>,
     <<[text |-> <<"h", "i">>, start |-> Sec(2), end |-> Sec(4)]>>,
     <<[text |-> <<"a", "a", " ", "b", "b">>, start |-> Sec(0), end |-> Sec(3),
        words |-> <<[word |-> <<"a", "a">>, start |-> Sec(0), end |-> Sec(1)],
                    [word |-> <<"b", "b">>, start |-> Sec(1), end |-> Sec(3)]>>]>>,
     <<[text |-> <<"h", "i">>]>>,
     <<[title |-> <<"t">>, description |-> <<"d">>, start |-> Sec(0),
        end |-> Sec(9)]>>,
     <<[title |-> <<"t">>, start |-> Sec(0)]>>}

\* texts that are not JSON documents
NotJson ==
    {<<>>,
     Chars("Sorry, I cannot process this file."),
     Chars("[{\"text\":\"hi\",]"),
     Chars("[Sorry]")}

\* texts that are JSON documents but hold an object, not an array
JsonObjects == {Chars("{\"text\":\"hi\",\"start\":2,\"end\":4}")}

\* response.text of the generation service
ResponseTexts ==
    {stringifyArray(v) : v \in JsonValues}
    \cup {<<" ">> \o stringifyArray(v) \o <<"\n">> : v \in JsonValues}
    \cup NotJson \cup JsonObjects

\* messages of the errors ai.models.generateContent throws
SdkErrorMessages ==
    {Chars("xhr error"), Chars("got status: 500 Internal Server Error"),
     Chars("FETCH_ERROR"), Chars("API key not valid. [API_KEY_INVALID]"),
     Chars("Quota exceeded for this project"),
     Chars("The model is overloaded"), <<>>}

GenerationOutcomes ==
    {[threw |-> FALSE, text |-> t] : t \in ResponseTexts}
    \cup {[threw |-> TRUE, text |-> m] : m \in SdkErrorMessages}

\* JSON.parse of a text that starts with "[" and ends with "]": the array
\* it denotes, or a SyntaxError
JSONparse(jsonText) ==
    IF \E v \in JsonValues : stringifyArray(v) = jsonText
    THEN Resolved(CHOOSE v \in JsonValues : stringifyArray(v) = jsonText)
    ELSE Rejected(Chars("Unexpected token in JSON"))

\* the body of processVideoForSubtitles (kind "subtitles") and of
\* processVideoForHighlights (kind "highlights"), given how generateContent
\* settles when it is called
processVideo(kind, f, outcome) ==
    LET jsonText == trim(outcome.text)
        thrown ==
            IF ~fileToGenerativePart(f).ok
            THEN fileToGenerativePart(f).message
            ELSE IF outcome.threw THEN outcome.text
            ELSE IF ~startsWith(jsonText, <<"[">>) \/ ~endsWith(jsonText, <<"]">>)
            THEN Chars("Failed to parse ") \o Chars(kind)
                 \o Chars(" from the AI. The response was not a valid JSON array.")
            ELSE JSONparse(jsonText).message
        returns ==
            /\ fileToGenerativePart(f).ok
            /\ ~outcome.threw
            /\ startsWith(jsonText, <<"[">>)
            /\ endsWith(jsonText, <<"]">>)
            /\ JSONparse(jsonText).ok
    IN  IF returns THEN JSONparse(jsonText)
        ELSE Rejected(handleApiError(thrown))

processVideoForSubtitles(f, outcome) == processVideo("subtitles", f, outcome)
processVideoForHighlights(f, outcome) == processVideo("highlights", f, outcome)

\* generateSubtitles: the message of an Error is passed on unchanged
generateSubtitles(f, outcome) ==
    IF ~validateFileSize(f).ok THEN validateFileSize(f)
    ELSE processVideoForSubtitles(f, outcome)

generateHighlights(f, outcome) ==
    IF ~validateFileSize(f).ok THEN validateFileSize(f)
    ELSE processVideoForHighlights(f, outcome)

\* whether the call reaches ai.models.generateContent
callsGenerateContent(f) == validateFileSize(f).ok /\ fileToGenerativePart(f).ok

\* structuredError without a title
structuredErrorUntitled(rawMessage) == rawMessage

\* the "Title|Message" string built in the catch block of handleFileUpload
structuredError(rawMessage) ==
    LET lower == toLowerCase(rawMessage)
    IN  IF includes(lower, Chars("api key"))
        THEN Chars("API Key Error|") \o rawMessage
        ELSE IF includes(lower, Chars("quota"))
        THEN Chars("Quota Exceeded|") \o rawMessage
        ELSE IF includes(lower, Chars("file is too large"))
        THEN Chars("File Too Large|")
             \o replace(rawMessage, Chars("File is too large"), Chars("Your file"))
        ELSE IF includes(lower, Chars("network"))
        THEN Chars("Network Error|") \o rawMessage
        ELSE IF includes(lower, Chars("parse"))
        THEN Chars("AI Response Error|") \o rawMessage
        ELSE Chars("Request Failed|") \o rawMessage

\* the caption objects of a parsed array, each with its identity
withIds(array) ==
    [k \in 1..Len(array) |->
        [m \in DOMAIN array[k] \cup {"id", "words"} |->
            IF m = "id" THEN k
            ELSE IF m \in DOMAIN array[k] THEN array[k][m]
            ELSE <<>>]]

UploadFiles ==
    {file(0), file(1), file(MAX_FILE_SIZE_BYTES), file(MAX_FILE_SIZE_BYTES + 1),
     file(MAX_FILE_SIZE_BYTES + 512 * 1024)}

editorVars ==
    <<nextId, currentTime, activeSubtitle, srtExportOptions, isSrtModalOpen,
      editingIndex, editText, download>>

\* handleFileUpload up to its await
handleFileUpload(f, stylePreset, processMode) ==
    /\ appState = "UPLOAD"
    /\ mediaFile' = Some(f)
    /\ appState' = "PROCESSING"
    /\ progress' = 0
    /\ error' = None
    /\ subtitles' = Null
    /\ highlightClips' = Null
    /\ pending' = Some([file |-> f, stylePreset |-> stylePreset,
                        processMode |-> processMode])
    /\ generation' = None
    /\ UNCHANGED <<styleOptions, editorVars, tsVars, rewrapped,
                   playerTrace>>

\* ai.models.generateContent settles
generateContentSettles(outcome) ==
    /\ pending # None
    /\ generation = None
    /\ callsGenerateContent(Value(pending).file)
    /\ generation' = Some(outcome)
    /\ UNCHANGED <<appState, mediaFile, highlightClips, error, progress,
                   pending, styleOptions, subtitles, editorVars, tsVars,
                   rewrapped,
                   playerTrace>>

\* handleFileUpload from its await on
handleFileUploadResumes ==
    /\ pending # None
    /\ generation # None \/ ~callsGenerateContent(Value(pending).file)
    /\ LET call == Value(pending)
           outcome == IF generation # None THEN Value(generation)
                      ELSE [threw |-> FALSE, text |-> <<>>]
           settled == IF call.processMode = "SUBTITLES"
                      THEN generateSubtitles(call.file, outcome)
                      ELSE generateHighlights(call.file, outcome)
       IN  IF settled.ok /\ call.processMode = "SUBTITLES"
           THEN /\ progress' = 100
                /\ subtitles' = withIds(settled.value)
                /\ nextId' = Len(settled.value) + 1
                /\ appState' = "EDITING"
                /\ styleOptions' = applyStylePreset(styleOptions, call.stylePreset)
                /\ UNCHANGED <<highlightClips, error>>
           ELSE IF settled.ok
           THEN /\ progress' = 100
                /\ highlightClips' = settled.value
                /\ appState' = "VIEWING_HIGHLIGHTS"
                /\ UNCHANGED <<subtitles, nextId, error, styleOptions>>
           ELSE /\ error' = Some(structuredError(settled.message))
                /\ appState' = "UPLOAD"
                /\ UNCHANGED <<subtitles, nextId, highlightClips, progress,
                               styleOptions>>
    /\ pending' = None
    /\ UNCHANGED <<mediaFile, generation, currentTime, activeSubtitle,
                   srtExportOptions, isSrtModalOpen, editingIndex, editText,
                   download, tsVars, rewrapped,
                   playerTrace>>

handleUrlSubmit ==
    /\ appState = "UPLOAD"
    /\ error' = Some(Chars("URL Processing Not Supported|This demo processes files directly. In a production app, a server would fetch the video from your link to begin analysis. This UI is for demonstration purposes."))
    /\ appState' = "UPLOAD"
    /\ UNCHANGED <<mediaFile, highlightClips, progress, pending, generation,
                   styleOptions, subtitles, editorVars, tsVars, rewrapped,
                   playerTrace>>

handleBack ==
    /\ appState \in {"EDITING", "VIEWING_HIGHLIGHTS"}
    /\ mediaFile' = None
    /\ subtitles' = Null
    /\ highlightClips' = Null
    /\ error' = None
    /\ progress' = 0
    /\ appState' = "UPLOAD"
    /\ UNCHANGED <<pending, generation, styleOptions, editorVars, tsVars,
                   rewrapped,
                   playerTrace>>

\* Math.random() * 5 + 1 lies in [1, 6)
ProgressIncrements == {1, 5}

MaxSimulatedProgress == 2

\* the interval callback of the PROCESSING state, followed while the progress
\* is below MaxSimulatedProgress
progressInterval(increment) ==
    /\ appState = "PROCESSING"
    /\ progress < MaxSimulatedProgress
    /\ progress' = IF progress >= 95 THEN 95
                   ELSE Min(progress + increment, 95)
    /\ UNCHANGED <<appState, mediaFile, highlightClips, error, pending,
                   generation, styleOptions, subtitles, editorVars, tsVars,
                   rewrapped,
                   playerTrace>>

InitUpload ==
    /\ appState = "UPLOAD"
    /\ mediaFile = None
    /\ subtitles = Null
    /\ highlightClips = Null
    /\ error = None
    /\ progress = 0
    /\ styleOptions = DefaultStyleOptions
    /\ pending = None
    /\ generation = None
    /\ nextId = 1
    /\ currentTime = Sec(0)
    /\ activeSubtitle = None
    /\ srtExportOptions = DefaultSrtExportOptions
    /\ isSrtModalOpen = FALSE
    /\ editingIndex = None
    /\ editText = <<>>
    /\ download = None
    /\ TimestampIdle
    /\ rewrapped = None
    /\ setActiveSubtitleCalled = FALSE

NextUpload ==
    \/ \E f \in UploadFiles, stylePreset \in StylePreset,
          processMode \in {"SUBTITLES", "HIGHLIGHTS"} :
          handleFileUpload(f, stylePreset, processMode)
    \/ \E outcome \in GenerationOutcomes : generateContentSettles(outcome)
    \/ handleFileUploadResumes
    \/ handleUrlSubmit
    \/ handleBack
    \/ \E increment \in ProgressIncrements : progressInterval(increment)

SpecUpload == InitUpload /\ [][NextUpload]_vars

\* the declared schemas: the required members of every element
MatchesSubtitleSchema(array) ==
    \A k \in 1..Len(array) : {"text", "start", "end"} \subseteq DOMAIN array[k]

MatchesHighlightSchema(array) ==
    \A k \in 1..Len(array) :
        {"title", "description", "start", "end"} \subseteq DOMAIN array[k]

\* C19: data of a response that is not JSON or does not match the declared
\* schema never reaches the state of the App: the captions of the editor
\* match the subtitle schema, the clips of the viewer the highlight schema.
C19_MalformedNeverAccepted ==
    /\ appState = "EDITING" => MatchesSubtitleSchema(subtitles)
    /\ appState = "VIEWING_HIGHLIGHTS" => MatchesHighlightSchema(highlightClips)

\* the response of the service is not a JSON array
RejectedAsMalformed ==
    /\ generation # None
    /\ ~Value(generation).threw
    /\ LET jsonText == trim(Value(generation).text)
       IN  \/ ~startsWith(jsonText, <<"[">>)
           \/ ~endsWith(jsonText, <<"]">>)
           \/ ~JSONparse(jsonText).ok

\* C20: when handleFileUpload ends on a response rejected as malformed, the
\* error it sets is of the category 'AI Response Error'.
C20_MalformedCategory ==
    [][(pending # None /\ pending' = None /\ RejectedAsMalformed) =>
          /\ error' # None
          /\ startsWith(Value(error'), Chars("AI Response Error|"))]_vars

\* the title of a "Title|Message" string
TitleOf(structured) == Pieces(structured, "|")[1]

\* the sub-kind of a failure of the service, by the signatures of its message
SubKind(message) ==
    IF \E signature \in {Chars("xhr error"), Chars("500"), Chars("FETCH_ERROR")} :
          includes(message, signature)
    THEN "network"
    ELSE IF includes(message, Chars("API_KEY_INVALID")) THEN "credential"
    ELSE IF includes(toLowerCase(message), Chars("quota")) THEN "quota"
    ELSE "generic"

TitleFor(subKind) ==
    CASE subKind = "network" -> Chars("Network Error")
      [] subKind = "credential" -> Chars("API Key Error")
      [] subKind = "quota" -> Chars("Quota Exceeded")
      [] subKind = "generic" -> Chars("Request Failed")

ServiceFailed == generation # None /\ Value(generation).threw

\* C21: when handleFileUpload ends on a failure of the generation service, the
\* title of the error it sets is the one of the sub-kind of the failure:
\* network, credential, quota, or the generic 'Request Failed'; the four
\* titles differ from each other.
C21_FailureCategories ==
    [][(pending # None /\ pending' = None /\ ServiceFailed) =>
          /\ appState' = "UPLOAD"
          /\ error' # None
          /\ TitleOf(Value(error'))
               = TitleFor(SubKind(Value(generation).text))
          /\ \A j, k \in {"network", "credential", "quota", "generic"} :
                j # k => TitleFor(j) # TitleFor(k)]_vars

C21_Witness ==
    /\ pending = None
    /\ ServiceFailed
    /\ Value(generation).text = Chars("Quota exceeded for this project")
    /\ appState = "UPLOAD"
    /\ error # None
    /\ TitleOf(Value(error)) = Chars("Quota Exceeded")

CeilingBytes == 500 * 1024 * 1024

\* the number between "(" and "MB)" of a message is the size in megabytes
\* to the nearest hundredth
StatesSizeOf(message, size) ==
    LET stated == Pieces(Pieces(message, "(")[2], "M")[1]
        whole == Pieces(stated, ".")[1]
        cents == Pieces(stated, ".")[2]
        rest == size - ParseNat(whole) * 1024 * 1024
    IN  /\ Len(Pieces(message, "(")) = 2
        /\ Len(Pieces(stated, ".")) = 2
        /\ AllDigits(whole) /\ Len(whole) > 0
        /\ AllDigits(cents) /\ Len(cents) = 2
        /\ 2 * Abs(ParseNat(cents) * 1024 * 1024 - 100 * rest) <= 1024 * 1024

StatesCeiling(message) ==
    endsWith(message, Chars("Please use a file under 500MB."))

Uploading == Value(pending).file

\* C22: for a file above 500 * 1024 * 1024 bytes generateSubtitles and
\* generateHighlights fail with a message that states the size of the file
\* and the ceiling, and generateContent is never called for it; a file of
\* the ceiling size or smaller passes the size check.
C22_SizeCeiling ==
    [][pending # None =>
          /\ Uploading.size > CeilingBytes =>
                generation = None /\ generation' = None
          /\ Uploading.size <= CeilingBytes => validateFileSize(Uploading).ok
          /\ pending' = None =>
                IF Uploading.size > CeilingBytes
                THEN /\ appState' = "UPLOAD"
                     /\ error' # None
                     /\ TitleOf(Value(error')) = Chars("File Too Large")
                     /\ StatesSizeOf(Value(error'), Uploading.size)
                     /\ StatesCeiling(Value(error'))
                ELSE error' # None =>
                        TitleOf(Value(error')) # Chars("File Too Large")]_vars

C22_Witness ==
    /\ pending = None
    /\ generation = None
    /\ mediaFile = Some(file(CeilingBytes + 512 * 1024))
    /\ appState = "UPLOAD"
    /\ error = Some(Chars("File Too Large|Your file (500.50MB). Please use a file under 500MB."))

C22_CeilingAccepted ==
    /\ mediaFile = Some(file(CeilingBytes))
    /\ appState = "EDITING"

\* the call in progress gets an array back from generateSubtitles or
\* generateHighlights
GenerationSucceeds ==
    /\ Uploading.size >= 1
    /\ Uploading.size <= CeilingBytes
    /\ generation # None
    /\ ~Value(generation).threw
    /\ ~RejectedAsMalformed

TitledError(structured) ==
    /\ Len(Pieces(structured, "|")) = 2
    /\ Len(Pieces(structured, "|")[1]) > 0
    /\ Len(Pieces(structured, "|")[2]) > 0

ViewHasItsData ==
    /\ appState = "EDITING" => mediaFile # None /\ subtitles # Null
    /\ appState = "VIEWING_HIGHLIGHTS" =>
          mediaFile # None /\ highlightClips # Null

\* C23: when an upload attempt ends, a failed generation leaves the App in
\* UPLOAD with an error 'Title|Message' and no subtitles and no clips; a
\* successful one leaves it in EDITING with subtitles (subtitle mode) or in
\* VIEWING_HIGHLIGHTS with clips (highlight mode) and no error. In every
\* state EDITING and VIEWING_HIGHLIGHTS have a media file and their data.
C23_UploadOutcome ==
    [][/\ (pending # None /\ pending' = None) =>
             IF GenerationSucceeds
             THEN /\ error' = None
                  /\ IF Value(pending).processMode = "SUBTITLES"
                     THEN /\ appState' = "EDITING"
                          /\ subtitles' # Null
                          /\ highlightClips' = Null
                     ELSE /\ appState' = "VIEWING_HIGHLIGHTS"
                          /\ highlightClips' # Null
                          /\ subtitles' = Null
             ELSE /\ appState' = "UPLOAD"
                  /\ error' # None
                  /\ TitledError(Value(error'))
                  /\ subtitles' = Null
                  /\ highlightClips' = Null
       /\ ViewHasItsData'
      ]_vars

C23_Witness ==
    /\ pending = None
    /\ generation # None
    /\ Value(generation).text = Chars("[Sorry]")
    /\ appState = "UPLOAD"
    /\ error # None
    /\ subtitles = Null
    /\ highlightClips = Null

C23_SuccessWitness ==
    /\ pending = None
    /\ appState = "VIEWING_HIGHLIGHTS"
    /\ error = None
    /\ Len(highlightClips) = 1

\* the spans of a text between a pair of "**" and the pair that closes it
EmphasisedSpans(text) ==
    {SubSeq(text, pq[1] + 2, pq[2] - 1) :
        pq \in {pq \in (1..Len(text)) \X (1..Len(text)) :
                  /\ StarsAt(text, pq[1])
                  /\ \A r \in 1..(pq[1] - 1) : ~StarsAt(text, r)
                  /\ pq[2] >= pq[1] + 2
                  /\ StarsAt(text, pq[2])
                  /\ \A r \in (pq[1] + 2)..(pq[2] - 1) : ~StarsAt(text, r)}}

\* C24: whatever the animation mode, a span of the shown caption's text
\* enclosed in "**" is rendered without the markers as an emphasised element
\* (highlight colour, heavier weight), in word mode with words as well.
C24_EmphasisInEveryMode ==
    Displayed =>
        \A span \in EmphasisedSpans(shown.text) :
            /\ display.kind \in {"plain", "karaoke"}
            /\ \E i \in 1..Len(display.children) :
                  display.children[i].strong /\ display.children[i].text = span

\* a timeupdate event: the only steps that set the time or the trace
Tick ==
    \/ currentTime' # currentTime
    \/ setActiveSubtitleCalled' # setActiveSubtitleCalled

\* C25: a timeupdate whose time resolves, in the same collection, to the
\* caption object that is already active does not call setActiveSubtitle;
\* of the state only the current time changes.
C25_NoRedundantWrite ==
    [][(Tick /\ find(subtitles, currentTime') = activeSubtitle) =>
          /\ ~setActiveSubtitleCalled'
          /\ activeSubtitle' = activeSubtitle
          /\ UNCHANGED <<subtitles, nextId,
                         srtExportOptions, isSrtModalOpen, editingIndex,
                         editText, download, styleOptions, appVars, tsVars,
                         rewrapped>>]_vars

C25_Witness ==
    /\ activeSubtitle # None
    /\ Value(activeSubtitle).id = 1
    /\ Value(activeSubtitle).start = Sec(2)
    /\ Value(activeSubtitle).end = Sec(4)
    /\ currentTime = Sec(3)
    /\ ~setActiveSubtitleCalled

\* C26: the caption shown by the player, when there is one, is an element of
\* the current collection and contains the current playback time; after an
\* edit of the displayed caption the display does not keep the pre-edit
\* object, also without a further clock tick.
C26_DisplayIsCurrent ==
    Displayed =>
        /\ \E k \in 1..Len(subtitles) : subtitles[k] = Value(activeSubtitle)
        /\ RLeq(Value(activeSubtitle).start, currentTime)
        /\ RLeq(currentTime, Value(activeSubtitle).end)

\* the same, for the sessions in which no caption was edited yet
C26_CurrentBeforeEdits == EditsDone = 0 => C26_DisplayIsCurrent

\* C27: the SRT export option type is 'words' only while word-level data is
\* available (the first caption has a non-empty words list), whatever
\* options were selected, captions edited and dialogs opened or closed.
C27_WordsOnlyWhenAvailable ==
    srtExportOptions.type = "words" => isWordAnimationAvailable

\* the same, for the sessions in which no caption was edited yet
C27_AvailableBeforeEdits == EditsDone = 0 => C27_WordsOnlyWhenAvailable

\* an entry of an SRT file lies within the span of a caption, both read at
\* the precision of the file
WithinSpan(entry, sub) ==
    /\ ReadBackMs(formatTimestamp(sub.start, "srt")) <= ReadBackMs(entry.start)
    /\ ReadBackMs(entry.end) <= ReadBackMs(formatTimestamp(sub.end, "srt"))

\* the entries of the file are, caption by caption, runs of entries within
\* the span of the caption, and a caption with a token has an entry
EveryCaptionRepresented(subs, content) ==
    LET entries == SrtEntries(content)
    IN  \E b \in Cuts(Len(subs), Len(entries)) :
            \A k \in 1..Len(subs) :
                /\ Len(tokenize(subs[k].text)) > 0 => b[k - 1] < b[k]
                /\ \A i \in (b[k - 1] + 1)..b[k] :
                      WithinSpan(entries[i], subs[k])

\* C28: every caption with a token has at least one entry in every SRT
\* export, whatever edits led to the collection and whatever the options; in
\* word mode a caption whose words an edit cleared is not left out while
\* other captions still carry words.
C28_EveryCaptionExported ==
    [][handleSrtExport =>
          EveryCaptionRepresented(subtitles, Value(download').content)]_vars

\* the same, for the exports in line mode
C28_LineModeRepresented ==
    [][(handleSrtExport /\ srtExportOptions.type = "lines") =>
          EveryCaptionRepresented(subtitles, Value(download').content)]_vars

\* the same, for the exports of collections in which no caption was edited
C28_RepresentedBeforeEdits ==
    [][(handleSrtExport /\ EditsDone = 0) =>
          EveryCaptionRepresented(subtitles, Value(download').content)]_vars

\* the cards of the output that lie within the span of a caption, in output
\* order
CardsWithin(sub) ==
    SelectSeq(returnedCards,
              LAMBDA card : RLeq(sub.start, card.start)
                            /\ RLeq(card.end, sub.end))

\* C29: rewrapSubtitles neither loses, duplicates nor reorders text: for
\* every input caption the whitespace tokens of the texts of its cards, in
\* card order, are exactly the whitespace tokens of the caption's text, for
\* all positive maxCharsPerLine and maxLinesPerCard.
C29_TokensPreserved ==
    Rewrapped =>
        \A k \in 1..Len(subtitles) :
            AllTokens(CardsWithin(subtitles[k])) = tokenize(subtitles[k].text)

C29_Witness ==
    /\ Rewrapped
    /\ Len(subtitles) = 2
    /\ subtitles[1].text = <<"a", " ", "a">>
    /\ subtitles[2].text = <<"a", " ">>
    /\ srtExportOptions.maxCharsPerLine = 1
    /\ srtExportOptions.maxLinesPerCard = 2
    /\ Len(returnedCards) = 2
    /\ CardsWithin(subtitles[1]) = <<returnedCards[1]>>
    /\ returnedCards[1].text = <<"a", "\n", "a">>
    /\ CardsWithin(subtitles[2]) = <<returnedCards[2]>>

\* editing ends with a text that, trimmed, is empty or the caption's own
EditingEndsWithoutChange ==
    /\ editingIndex # None
    /\ editingIndex' = None
    /\ \/ Len(trim(editText)) = 0
       \/ trim(editText) = subtitles[Value(editingIndex)].text

\* C30: saving a timeline edit whose trimmed text is empty or equal to the
\* caption's text leaves the collection unchanged and only ends editing; no
\* edit leaves a caption with an empty text, and the words of a caption are
\* cleared only when its text changed.
C30_NoOpSave ==
    [][/\ EditingEndsWithoutChange =>
            UNCHANGED <<subtitles, nextId, currentTime, activeSubtitle,
                        srtExportOptions, isSrtModalOpen, editText, download,
                        styleOptions, appVars, playerTrace>>
       /\ \A k \in 1..Len(subtitles) :
            /\ Len(subtitles') = Len(subtitles)
            /\ subtitles'[k].text # subtitles[k].text =>
                  Len(subtitles'[k].text) > 0
            /\ subtitles'[k].words # subtitles[k].words =>
                  subtitles'[k].text # subtitles[k].text]_vars

C30_Witness ==
    /\ EditsDone = 1
    /\ Len(subtitles) = 2
    /\ subtitles[1].text = <<"x">>
    /\ subtitles[1].words = <<>>
    /\ Len(subtitles[2].words) = 1
    /\ editingIndex = None
    /\ editText = <<" ">>

====
